---------------------------- MODULE Spec2Model ----------------------------
(***************************************************************************)
(* A model of several parts of jankscripten, among them:                   *)
(*   - the wasm emitter          (libjankscripten/src/notwasm/translation.rs)   *)
(*   - the runtime allocator/GC  (runtime/src/allocator/mod.rs)            *)
(*   - type inference            (libjankscripten/src/jankyscript/typeinf.rs)   *)
(*   - the A-normalizer          (libjankscripten/src/notwasm/from_jankyscript.rs) *)
(* and further down the module as a whole, the LowIR type checker, hidden  *)
(* classes, the boxing pass, the continuation dispatch of the              *)
(* A-normalizer, labels and breaks, the inline caches of a program and the *)
(* pointer held in an Any.  Each part has its own specification (SpecEmit, *)
(* SpecHeap, SpecInf, SpecAnf, SpecTp, SpecCmp, SpecCls, SpecBox,          *)
(* SpecRecv, SpecBrk, SpecSeg, SpecAny); the variables of the other parts  *)
(* stay at their idle value.                                               *)
(***************************************************************************)
EXTENDS Integers, Sequences, FiniteSets, TLC

VARIABLES
  \* ---- emitter: the input of translate_func and what it produced
  phase,        \* "idle" | "input" | "emitted"
  func,         \* the N::Function being translated
  disable_gc,   \* opts.disable_gc
  insts,        \* the instructions of the emitted function body
  locals,       \* Translate.locals: wasm types of the declared locals
  ltys,         \* for each local index handed out, in order: [n, ty]
  data,         \* the data segment (program.data)
  \* ---- an execution of the emitted body
  pc,           \* index of the next instruction
  cstack,       \* open wasm blocks: [kind, start, end]
  n_enter,      \* calls of gc_enter_fn so far on this path
  n_exit,       \* calls of gc_exit_fn so far on this path
  halt          \* "no" | "return" | "end" | "trap"

emitVars == <<phase, func, disable_gc, insts, locals, ltys, data,
              pc, cstack, n_enter, n_exit, halt>>

VARIABLES
  \* ---- the runtime heap
  mem,          \* the heap buffer, word by word
  free_list,    \* Heap.free_list: the blocks [start, size], in list order
  shadow_stack, \* Heap.shadow_stack: a stack of frames of tag pointers
  live,         \* history: the allocations made and not swept, [ptr, size]
  last,         \* history: the last heap operation [op, ok, ptr, ev]
  panicked      \* the runtime has aborted

heapVars == <<mem, free_list, shadow_stack, live, last, panicked>>

VARIABLES
  \* ---- type inference (typeinf.rs)
  inf_phase,    \* where typeinf is: "idle", "input", "cgen", "solved", "done", "panic"
  janky,        \* the program typeinf works on, rewritten in place
  before,       \* history: the program as it was handed to the current run
  inf_runs,     \* history: how many times typeinf was started
  solver,       \* Typeinf: the metavariables, weights and asserted constraints
  mapping       \* solve_model: the type of every metavariable

infVars == <<inf_phase, janky, before, inf_runs, solver, mapping>>

VARIABLES
  \* ---- A-normalization (notwasm/from_jankyscript.rs)
  anf_phase,      \* "idle", "input", "done" or "panic"
  janky_program,  \* the JankyScript statement handed to from_jankyscript
  program         \* the NotWasm Program it returns: its functions, in the
                  \* order in which new_function inserted them

anfVars == <<anf_phase, janky_program, program>>

VARIABLES
  \* ---- the module as a whole (translation.rs translate_parity)
  tp_phase,     \* "idle", "input", "done" or "panic"
  tp_opts,      \* Opts: [disable_gc]
  tp_program,   \* the N::Program: the names of its functions in the order
                \* of program.functions, its globals, its rts_fn_imports
  tp_module     \* the Module built: the imported runtime functions, the
                \* functions pushed (the program's, then the generated
                \* main) and the exports

tpVars == <<tp_phase, tp_opts, tp_program, tp_module>>

VARIABLES
  \* ---- notwasm::compile (compile.rs) and the LowIR type checker
  cmp_phase,    \* "idle", "input" or "done"
  cmp_program,  \* the Program handed to compile; type_check annotates it
  cmp_check,    \* what type_checking::type_check came to: "none", "Ok",
                \* an error kind, or "panic" when an assert! fails inside
  cmp_result    \* what compile came to: "none", "Ok" (bytes), "Err" or
                \* "panic"

cmpVars == <<cmp_phase, cmp_program, cmp_check, cmp_result>>

VARIABLES
  \* ---- hidden classes (runtime/src/allocator/class.rs ClassPtr::insert)
  cls_phase,    \* "idle" or "run"
  cls_classes,  \* heap.classes: the class table, a class tag is an index
  cls_objects,  \* the containers allocated, in allocation order:
                \* [class_tag, fields], a field is a pointer or Null
  cls_self,     \* the object the caller holds
  cls_written,  \* history: for each name inserted, the last value inserted
  cls_last      \* history: the last operation and what it returned

clsVars == <<cls_phase, cls_classes, cls_objects, cls_self, cls_written, cls_last>>

VARIABLES
  \* ---- the boxing pass (jankyscript/box_assigns.rs)
  box_phase,    \* "idle", "input" or "done"
  box_globals,  \* should_box_globals
  box_program   \* the program box_assigns rewrites in place

boxVars == <<box_phase, box_globals, box_program>>

VARIABLES
  \* ---- one continuation dispatch of the A-normalizer (C::recv_a, C::recv_e)
  recv_phase,   \* "idle", "input" or "done"
  recv_cxt,     \* the context self
  recv_state,   \* the S handed in
  recv_atom,    \* the Atom recv_a may be handed
  recv_expr,    \* the Expr recv_e may be handed
  recv_op,      \* "none", "recv_a" or "recv_e": which of the two was called
  recv_out      \* the Rope<Stmt> returned and the S left behind

recvVars == <<recv_phase, recv_cxt, recv_state, recv_atom, recv_expr, recv_op, recv_out>>

VARIABLES
  \* ---- the functions of a program translated one after the other into one
  \* data segment (translation.rs, the loop of translate_parity)
  seg_phase,      \* "idle", "input" or "done"
  seg_disable_gc, \* opts.disable_gc
  seg_functions,  \* program.functions, in the order the loop visits them
  seg_strings,    \* history: program.data as the intern pass left it
  seg_data,       \* program.data
  seg_bodies      \* the instructions of each function pushed to the module

segVars == <<seg_phase, seg_disable_gc, seg_functions, seg_strings, seg_data,
             seg_bodies>>

VARIABLES
  \* ---- a pointer taken out of an Any by emitted code (translation.rs,
  \* translate_pointer_method and Atom::EnvGet)
  any_phase,    \* "idle", "input" or "done"
  any_ptr,      \* the pointer, 32 bits, lowest first
  any_index,    \* the index of the environment entry that holds it
  any_via,      \* "none", "dispatch" or "env": the code that was run
  any_got       \* what the code left on the stack

anyVars == <<any_phase, any_ptr, any_index, any_via, any_got>>

restVars == <<recvVars, segVars, anyVars>>
laterVars == <<cmpVars, clsVars, boxVars, restVars>>

vars == <<emitVars, heapVars, infVars, anfVars, tpVars, laterVars>>
nonEmitVars == <<heapVars, infVars, anfVars, tpVars, laterVars>>
nonHeapVars == <<emitVars, infVars, anfVars, tpVars, laterVars>>
nonInfVars == <<emitVars, heapVars, anfVars, tpVars, laterVars>>
nonAnfVars == <<emitVars, heapVars, infVars, tpVars, laterVars>>
nonTpVars == <<emitVars, heapVars, infVars, anfVars, laterVars>>
firstVars == <<emitVars, heapVars, infVars, anfVars, tpVars>>
nonCmpVars == <<firstVars, clsVars, boxVars, restVars>>
nonClsVars == <<firstVars, cmpVars, boxVars, restVars>>
nonBoxVars == <<firstVars, cmpVars, clsVars, restVars>>
nonRecvVars == <<firstVars, cmpVars, clsVars, boxVars, segVars, anyVars>>
nonSegVars == <<firstVars, cmpVars, clsVars, boxVars, recvVars, anyVars>>
nonAnyVars == <<firstVars, cmpVars, clsVars, boxVars, recvVars, segVars>>

(***************************************************************************)
(* Bounds of the model.                                                    *)
(***************************************************************************)
MaxStmts == 2      \* statements in a generated function body
MaxCount == 3      \* cap of the n_enter / n_exit path counters

(***************************************************************************)
(* Sequence helpers.                                                       *)
(***************************************************************************)
Max(a, b) == IF a >= b THEN a ELSE b
Min(a, b) == IF a <= b THEN a ELSE b

Range(s) == {s[i] : i \in 1..Len(s)}

\* functions as finite maps (HashMap insert / get)
MapPut(m, key, v) == [x \in DOMAIN m \cup {key} |-> IF x = key THEN v ELSE m[x]]
EmptyMap == [x \in {} |-> 0]


(***************************************************************************)
(*                             THE WASM EMITTER                            *)
(* NotWasm syntax, as records:                                             *)
(*   atoms  [k |-> "Lit", lit], [k |-> "Id", id], [k |-> "FromAny", a, ty],*)
(*          [k |-> "ObjectGet", obj, field], [k |-> "AnyLength", id, method]*)
(*   exprs  [k |-> "Atom", a], [k |-> "AnyMethodCall", id, method, args,   *)
(*          typs], [k |-> "ClosureCall", id, args], [k |-> "ObjectSet",..] *)
(*   stmts  Var, Assign, Expression, If, Loop, Label, Break, Return,       *)
(*          Block, Empty, Trap                                             *)
(* Instructions are records [op, n, s, table].                             *)
(***************************************************************************)
Ins(op) == [op |-> op]
InsN(op, n) == [op |-> op, n |-> n]
CallRt(name) == [op |-> "Call", s |-> name]

\* N::Type::as_wasm
as_wasm(ty) ==
  CASE ty = "F64" -> "f64"
    [] ty \in {"Any", "Closure"} -> "i64"
    [] OTHER -> "i32"

\* N::Type::is_gc_root (notwasm/syntax.rs): numbers, booleans and plain
\* function indices hold no heap pointer, every other type may
is_gc_root(ty) == ty \notin {"I32", "Bool", "F64", "Fn"}

\* shadow_frame_fn
shadow_frame_fn(ty) ==
  CASE ty = "Any" -> "set_any_in_current_shadow_frame_slot"
    [] ty = "Closure" -> "set_closure_in_current_shadow_frame_slot"
    [] OTHER -> "set_in_current_shadow_frame_slot"

\* Translate::new
NewTranslate(opts, id_env, d) ==
  [opts |-> opts, out |-> <<>>, locals |-> <<>>, next_id |-> 0,
   id_env |-> id_env, data |-> d, ltys |-> <<>>]

\* the translator has finished a step (its state is computed) before the
\* following step starts
Done(T) == T.next_id >= 0

Push(T, i) == [T EXCEPT !.out = Append(@, i)]

\* Translate::rt_call
rt_call(T, name) == Push(T, CallRt(name))

\* Translate::set_in_current_shadow_frame_slot
set_in_current_shadow_frame_slot(T, ty) == rt_call(T, shadow_frame_fn(ty))

\* Translate::to_any
to_any(T, ty) ==
  CASE ty = "I32" -> rt_call(T, "any_from_i32")
    [] ty = "Bool" -> rt_call(T, "any_from_bool")
    [] ty = "F64" -> rt_call(T, "f64_to_any")
    [] ty = "Fn" -> rt_call(T, "any_from_fn")
    [] ty = "Closure" -> rt_call(T, "any_from_closure")
    [] ty = "Any" -> T
    [] OTHER -> rt_call(T, "any_from_ptr")

\* Translate::from_any
from_any(T, ty) ==
  CASE ty = "I32" -> rt_call(T, "any_to_i32")
    [] ty = "Bool" -> rt_call(T, "any_to_bool")
    [] ty = "F64" -> rt_call(T, "any_to_f64")
    [] ty = "Closure" -> rt_call(T, "any_to_closure")
    [] ty = "Any" -> T
    [] OTHER -> rt_call(T, "any_to_ptr")

\* Translate::get_id (the instructions it pushes), for IdIndex::Local and
\* IdIndex::Global
get_id(T, id) ==
  LET ix == T.id_env[id] IN
  CASE ix.kind = "Local" -> Push(T, InsN("GetLocal", ix.n))
    [] ix.kind = "Global" -> Push(T, InsN("GetGlobal", ix.n))

\* a data_cache that pushes the offset and leaves the segment as it is
data_cache_unextended(T) ==
  Push(Push(Push(T, InsN("GetGlobal", 0)), InsN("I32Const", Len(T.data))),
       Ins("I32Add"))

\* Translate::data_cache
data_cache(T) ==
  LET T1 == Push(Push(Push(T, InsN("GetGlobal", 0)),
                      InsN("I32Const", Len(T.data))), Ins("I32Add"))
  IN [T1 EXCEPT !.data = @ \o <<255, 255, 255, 255>>]

\* a fresh local index: next_id, next_id += 1, locals.push(wasm type);
\* ty is the NotWasm type of what the local holds
NewLocal(T, ty) ==
  [T EXCEPT !.next_id = @ + 1,
            !.locals = Append(@, as_wasm(ty)),
            !.ltys = Append(@, [n |-> T.next_id, ty |-> ty])]

RECURSIVE translate_atom(_, _)
RECURSIVE translate_expr(_, _)
RECURSIVE translate_rec(_, _, _, _)
RECURSIVE translate_block(_, _, _, _, _)
RECURSIVE block_rest(_, _, _, _, _)
RECURSIVE get_ids(_, _, _)
RECURSIVE typed_args(_, _, _, _)

\* for arg in args { self.get_id(arg) }
get_ids(T, args, i) ==
  IF i > Len(args) THEN T ELSE get_ids(get_id(T, args[i]), args, i + 1)

\* typed_call's loop: for (arg, typ) in args.zip(arg_typs) { get_id; from_any }
typed_args(T, args, arg_typs, i) ==
  IF i > Min(Len(args), Len(arg_typs)) THEN T
  ELSE typed_args(from_any(get_id(T, args[i]), arg_typs[i]), args, arg_typs, i + 1)

\* the closure typed_call of translate_any_method
typed_call(T, typs, args, method, index, typ) ==
  LET found == {i \in 1..Len(typs) : typs[i].args[1] = typ} IN
  IF found = {} THEN T
  ELSE LET t == typs[CHOOSE i \in found : \A j \in found : i <= j]
           T1 == typed_args(T, args, t.args, 1)
           T2 == rt_call(T1, typ \o "_" \o method)
       IN IF t.result = "None" THEN T2
          ELSE Push(to_any(T2, t.result), InsN("SetLocal", index))

ClosureTy == "Closure"

\* translate_atom, Atom::Lit of an interned string
lit_interned(T) ==
  [T EXCEPT !.out = @ \o <<InsN("GetGlobal", 0), InsN("I32Const", 0), Ins("I32Add")>>]

\* translate_atom, Atom::ObjectGet once object and field are on the stack
object_get(T) == rt_call(data_cache(T), "object_get")

\* translate_expr, Expr::ClosureCall
closure_call(T, id, args) ==
  LET T1 == rt_call(get_id(T, id), "closure_env")
      T2 == get_ids(T1, args, 1)
      T3 == rt_call(get_id(T2, id), "closure_func")
  IN Push(T3, Ins("CallIndirect"))

\* is_init of the Var case: an `undefined` initialiser of a non-Any variable
is_init(s) ==
  s.ty # "Any" /\ s.e.k = "Atom" /\ s.e.a.k = "Lit" /\ s.e.a.lit = "Undefined"

\* the write of local n with a value of type ty (Var and Assign cases)
write_local(T, n, ty) ==
  IF T.opts.disable_gc \/ ~is_gc_root(ty)
  THEN Push(T, InsN("SetLocal", n))
  ELSE set_in_current_shadow_frame_slot(
         Push(Push(T, InsN("TeeLocal", n)), InsN("I32Const", n)), ty)

\* Translate::translate_object_method.  dot_atom is
\* ObjectGet(FromAny(Id(any), DynObject), Lit(method)); with do_call it is
\* wrapped in FromAny(_, closure_type), assigned to %mfn by the Assign case of
\* translate_rec, and %mfn is called by the ClosureCall case of translate_expr
translate_object_method(T, any, method, args, do_call) ==
  LET T1 == IF do_call
            THEN LET Tn == NewLocal(T, ClosureTy)
                 IN [Tn EXCEPT !.id_env = MapPut(@, "%mfn",
                        [kind |-> "Local", n |-> T.next_id, ty |-> ClosureTy])]
            ELSE T
      T2 == object_get(lit_interned(from_any(get_id(T1, any), "DynObject")))
  IN IF do_call
     THEN LET ix == T1.id_env["%mfn"]
              T3 == write_local(from_any(T2, ClosureTy), ix.n, ix.ty)
          IN closure_call(T3, "%mfn", args)
     ELSE T2

\* translate_pointer_method, "Get the pointer": what follows get_id(any)
get_the_pointer == <<InsN("I64Const", 32), Ins("I64ShrU"), Ins("I32WrapI64")>>

\* translate_atom, Atom::EnvGet: offset is TAG_SIZE + LENGTH_SIZE +
\* FN_OBJ_SIZE + index * ANY_SIZE
env_offset(index) == 4 + 4 + 4 + index * 8
env_get(T, index, ty) ==
  [T EXCEPT !.out = @ \o <<InsN("GetLocal", 0)>> \o
     (IF ty = "Closure"
      THEN <<InsN("I64Load", env_offset(index)), InsN("I64Const", 16), Ins("I64ShrU")>>
      ELSE IF as_wasm(ty) = "i64" THEN <<InsN("I64Load", env_offset(index))>>
      ELSE <<InsN("I32Load", env_offset(index) + 4)>>)]

\* a pointer arm that stores a result and does not branch out
translate_pointer_method_unbranched(T, any, method, args, typs, index, do_call) ==
  [get_id(T, any) EXCEPT !.out = @ \o <<InsN("SetLocal", index)>>]

\* Translate::translate_pointer_method
translate_pointer_method(T, any, method, args, typs, index, do_call) ==
  LET B == Ins("Block")
      T1 == [T EXCEPT !.out = @ \o <<B, B, B, B>>]
      T2 == get_id(T1, any)
      T3 == [T2 EXCEPT !.out = @ \o get_the_pointer \o
                                    <<Ins("I32Load8U"),
                                      [op |-> "BrTable", table |-> <<0, 1, 2, 3>>, n |-> 0],
                                      Ins("End")>>]
      T4 == typed_call(T3, typs, args, method, index, "Array")
      T5 == [T4 EXCEPT !.out = @ \o <<InsN("Br", 4), Ins("End")>>]
      T6 == typed_call(T5, typs, args, method, index, "String")
      T7 == [T6 EXCEPT !.out = @ \o <<InsN("Br", 3), Ins("End"), InsN("Br", 2), Ins("End")>>]
      T8 == IF Done(T7) THEN translate_object_method(T7, any, method, args, do_call)
            ELSE T7
  IN [T8 EXCEPT !.out = @ \o <<InsN("SetLocal", index), InsN("Br", 1)>>]

\* Translate::translate_any_method; the reserved result local holds an Any
translate_any_method(T, any, method, args, typs, do_call) ==
  LET index == T.next_id
      T0 == NewLocal(T, "Any")
      B == Ins("Block")
      T1 == [T0 EXCEPT !.out = @ \o <<B, B, B, B, B, B>>]
      T2 == get_id(T1, any)
      T3 == [T2 EXCEPT !.out = @ \o
               <<Ins("I32WrapI64"), InsN("I32Const", 255), Ins("I32And"),
                 [op |-> "BrTable", table |-> <<0, 1, 2, 3, 4>>, n |-> 0],
                 Ins("End"),
                 InsN("I64Const", 0), InsN("SetLocal", index), InsN("Br", 4), Ins("End"),
                 InsN("I64Const", 1), InsN("SetLocal", index), InsN("Br", 3), Ins("End"),
                 InsN("I64Const", 2), InsN("SetLocal", index), InsN("Br", 2), Ins("End")>>]
      T4 == IF Done(T3)
            THEN translate_pointer_method(T3, any, method, args, typs, index, do_call)
            ELSE T3
  IN [T4 EXCEPT !.out = @ \o <<Ins("End"),
                               InsN("I64Const", 4), InsN("SetLocal", index), Ins("End"),
                               InsN("GetLocal", index)>>]

\* the possible_typs translate_atom builds for AnyLength
LengthTyps == <<[args |-> <<"String">>, result |-> "I32"],
                [args |-> <<"Array">>, result |-> "I32"]>>

\* Translate::translate_atom
translate_atom(T, a) ==
  CASE a.k = "Lit" ->
         (CASE a.lit = "Interned" -> lit_interned(T)
            [] a.lit = "Undefined" -> rt_call(T, "get_undefined")
            [] a.lit = "Null" -> rt_call(T, "get_null")
            [] OTHER -> Push(T, InsN("I32Const", 1)))
    [] a.k = "Id" -> get_id(T, a.id)
    [] a.k = "FromAny" -> from_any(translate_atom(T, a.a), a.ty)
    [] a.k = "ObjectGet" ->
         object_get(translate_atom(translate_atom(T, a.obj), a.field))
    [] a.k = "AnyLength" ->
         translate_any_method(T, a.id, a.method, <<a.id>>, LengthTyps, FALSE)
    [] a.k = "EnvGet" -> env_get(T, a.index, a.ty)

\* Translate::translate_expr
translate_expr(T, e) ==
  CASE e.k = "Atom" -> translate_atom(T, e.a)
    [] e.k = "ObjectSet" ->
         rt_call(data_cache(translate_atom(translate_atom(translate_atom(T, e.obj), e.field), e.val)),
                 "object_set")
    [] e.k = "AnyMethodCall" ->
         translate_any_method(T, e.id, e.method, e.args, e.typs, TRUE)
    [] e.k = "ClosureCall" -> closure_call(T, e.id, e.args)

\* translate_rec, Stmt::Var after the initialiser is translated
declare_var(T, stmt) ==
  LET index == T.next_id
      T1 == [NewLocal(T, stmt.ty) EXCEPT !.id_env = MapPut(@, stmt.id,
                 [kind |-> "Local", n |-> index, ty |-> stmt.ty])]
  IN IF is_init(stmt) THEN T1 ELSE write_local(T1, index, stmt.ty)

\* Stmt::Block: each statement in order, the last one in tail position
translate_block(T, env, tail, ss, i) ==
  IF i > Len(ss) THEN T
  ELSE block_rest(translate_rec(T, env, tail /\ i = Len(ss), ss[i]), env, tail, ss, i)

\* the statements after the i-th, once the i-th is translated
block_rest(T, env, tail, ss, i) ==
  IF Done(T) THEN translate_block(T, env, tail, ss, i + 1) ELSE T

\* an index_of that finds the outermost label of the name
index_of_outermost(labels, l) ==
  (CHOOSE i \in 1..Len(labels) :
      labels[i] = l /\ \A j \in (i + 1)..Len(labels) : labels[j] # l) - 1

\* env.labels.index_of(Label(l))
index_of(labels, l) ==
  (CHOOSE i \in 1..Len(labels) :
      labels[i] = l /\ \A j \in 1..(i - 1) : labels[j] # l) - 1

\* Translate::translate_rec
translate_rec(T, env, tail, stmt) ==
  CASE stmt.k = "Empty" -> T
    [] stmt.k = "Block" -> translate_block(T, env, tail, stmt.ss, 1)
    [] stmt.k = "Var" ->
         declare_var(IF is_init(stmt) THEN T ELSE translate_expr(T, stmt.e), stmt)
    [] stmt.k = "Expression" -> Push(translate_expr(T, stmt.e), Ins("Drop"))
    [] stmt.k = "Assign" ->
         LET ix == T.id_env[stmt.id] IN
         write_local(translate_expr(T, stmt.e), ix.n, ix.ty)
    [] stmt.k = "If" ->
         LET T1 == Push(translate_atom(T, stmt.c), Ins("If"))
             env1 == [env EXCEPT !.labels = <<"Unused">> \o @]
             T2 == Push(translate_rec(T1, env1, tail, stmt.s1), Ins("Else"))
         IN Push(translate_rec(T2, env1, tail, stmt.s2), Ins("End"))
    [] stmt.k = "Loop" ->
         LET env1 == [env EXCEPT !.labels = <<"Unused">> \o @]
             T1 == translate_rec(Push(T, Ins("Loop")), env1, FALSE, stmt.s)
         IN Push(Push(T1, InsN("Br", 0)), Ins("End"))
    [] stmt.k = "Label" ->
         LET env1 == [env EXCEPT !.labels = <<stmt.l>> \o @]
         IN Push(translate_rec(Push(T, Ins("Block")), env1, tail, stmt.s), Ins("End"))
    [] stmt.k = "Break" -> Push(T, InsN("Br", index_of(env.labels, stmt.l)))
    [] stmt.k = "Return" ->
         LET T1 == IF ~T.opts.disable_gc THEN rt_call(T, "gc_exit_fn") ELSE T
         IN Push(translate_atom(T1, stmt.a), Ins("Return"))
    [] stmt.k = "Trap" -> Push(T, Ins("Unreachable"))

RECURSIVE bind_params(_, _, _)
\* translate_func: "Add indices for parameters"
bind_params(T, f, i) ==
  IF i > Min(Len(f.params), Len(f.args)) THEN T
  ELSE bind_params(
         [T EXCEPT !.next_id = @ + 1,
                   !.id_env = MapPut(@, f.params[i],
                                [kind |-> "Local", n |-> T.next_id, ty |-> f.args[i]]),
                   !.ltys = Append(@, [n |-> T.next_id, ty |-> f.args[i]])],
         f, i + 1)

\* a translate_func that appends no epilogue
func_epilogue_none(T) == T

\* a frame size that counts the declared locals only
num_slots_locals(T, f) == Len(T.locals)

\* the frame size translate_func passes to gc_enter_fn
num_slots(T, f) == Len(T.locals) + Len(f.params)

\* the epilogue translate_func appends after the body
func_epilogue(T) == IF ~T.opts.disable_gc THEN rt_call(T, "gc_exit_fn") ELSE T

\* translate_func, after the body is translated: prologue, body, epilogue, End
func_insts(T, f) ==
  LET pro == IF ~T.opts.disable_gc
             THEN <<InsN("I32Const", num_slots(T, f)), CallRt("gc_enter_fn")>>
             ELSE <<>>
  IN [insts |-> pro \o func_epilogue(T).out \o <<Ins("End")>>,
      locals |-> T.locals, ltys |-> T.ltys, data |-> T.data]

\* translate_func
translate_func(opts, f, id_env, d) ==
  func_insts(translate_rec(bind_params(NewTranslate(opts, id_env, d), f, 1),
                           [labels |-> <<>>, result_type |-> f.result], TRUE, f.body), f)

(***************************************************************************)
(* The functions handed to translate_func: three parameters and a body of  *)
(* at most MaxStmts statements drawn from EmitStmts.                       *)
(***************************************************************************)
AId(x) == [k |-> "Id", id |-> x]
ALit(l) == [k |-> "Lit", lit |-> l]
EAtom(a) == [k |-> "Atom", a |-> a]

FuncParams == <<"p0", "p1", "p2">>
FuncArgs == <<"Any", "DynObject", "I32">>

\* the typs of an AnyMethodCall: a String method and an Array method
MethodTyps == <<[args |-> <<"String", "Any">>, result |-> "Any"],
                [args |-> <<"Array", "Any">>, result |-> "None"]>>

\* the typs of an AnyMethodCall on a number or a boolean
NumberTyps == <<[args |-> <<"I32">>, result |-> "Any"],
                [args |-> <<"Bool">>, result |-> "Any"],
                [args |-> <<"F64">>, result |-> "Any"],
                [args |-> <<"Closure">>, result |-> "Any"]>>

EmitStmts ==
  { [k |-> "Var", id |-> "x", ty |-> "Any", e |-> EAtom(AId("p0"))],
    [k |-> "Var", id |-> "y", ty |-> "I32", e |-> EAtom(ALit("I32"))],
    [k |-> "Var", id |-> "z", ty |-> "DynObject", e |-> EAtom(ALit("Undefined"))],
    [k |-> "Var", id |-> "w", ty |-> "I32",
       e |-> EAtom([k |-> "AnyLength", id |-> "p0", method |-> "length"])],
    [k |-> "Assign", id |-> "p1",
       e |-> EAtom([k |-> "FromAny", a |-> AId("p0"), ty |-> "DynObject"])],
    [k |-> "Assign", id |-> "p2", e |-> EAtom(ALit("I32"))],
    [k |-> "Expression",
       e |-> [k |-> "AnyMethodCall", id |-> "p0", method |-> "m",
              args |-> <<"p0", "p0">>, typs |-> MethodTyps]],
    [k |-> "Expression",
       e |-> [k |-> "AnyMethodCall", id |-> "p0", method |-> "m",
              args |-> <<"p0">>, typs |-> NumberTyps]],
    [k |-> "Expression",
       e |-> [k |-> "ObjectSet", obj |-> AId("p1"), field |-> ALit("Interned"),
              val |-> AId("p0")]],
    [k |-> "If", c |-> AId("p2"),
       s1 |-> [k |-> "Return", a |-> AId("p0")], s2 |-> [k |-> "Empty"]],
    [k |-> "If", c |-> AId("p2"),
       s1 |-> [k |-> "Return", a |-> AId("p0")],
       s2 |-> [k |-> "Return", a |-> ALit("Undefined")]],
    [k |-> "Return", a |-> AId("p0")],
    [k |-> "Label", l |-> "l",
       s |-> [k |-> "Loop",
              s |-> [k |-> "If", c |-> AId("p2"),
                     s1 |-> [k |-> "Assign", id |-> "p0", e |-> EAtom(ALit("Null"))],
                     s2 |-> [k |-> "Break", l |-> "l"]]]],
    [k |-> "Trap"] }

RECURSIVE SeqsUpTo(_, _)
\* the sequences over S of length at most n
SeqsUpTo(S, n) ==
  IF n = 0 THEN {<<>>}
  ELSE LET R == SeqsUpTo(S, n - 1) IN R \cup {Append(q, x) : q \in R, x \in S}

EmitFuncs ==
  { [params |-> FuncParams, args |-> FuncArgs, result |-> "Any",
     body |-> [k |-> "Block", ss |-> ss]] : ss \in SeqsUpTo(EmitStmts, MaxStmts) }

NoFunc == [params |-> <<>>, args |-> <<>>, result |-> "None", body |-> [k |-> "Empty"]]

EmitIdle ==
  /\ phase = "idle" /\ func = NoFunc /\ disable_gc = FALSE
  /\ insts = <<>> /\ locals = <<>> /\ ltys = <<>> /\ data = <<>>
  /\ pc = 0 /\ cstack = <<>> /\ n_enter = 0 /\ n_exit = 0 /\ halt = "no"

HeapIdle ==
  /\ mem = <<>> /\ free_list = <<>> /\ shadow_stack = <<>> /\ live = {}
  /\ panicked = FALSE
  /\ last = [op |-> "none", ok |-> FALSE, ptr |-> 0, ev |-> <<>>]

NoSolver == [nv |-> 0, nw |-> 0, phi |-> <<>>, env |-> <<>>, panic |-> FALSE]

InfIdle ==
  /\ inf_phase = "idle" /\ janky = <<>> /\ before = <<>> /\ inf_runs = 0
  /\ solver = NoSolver /\ mapping = <<>>

NoProgram == [functions |-> <<>>]

AnfIdle ==
  /\ anf_phase = "idle" /\ janky_program = <<>> /\ program = NoProgram

NoModule == [imports |-> <<>>, functions |-> <<>>, exports |-> <<>>]

TpIdle ==
  /\ tp_phase = "idle" /\ tp_opts = [disable_gc |-> FALSE]
  /\ tp_program = <<>> /\ tp_module = NoModule

CmpIdle ==
  /\ cmp_phase = "idle" /\ cmp_program = <<>>
  /\ cmp_check = "none" /\ cmp_result = "none"

NoOp ==
  [op |-> "none", name |-> "", value |-> "", self |-> 0, ret |-> 0,
   had |-> FALSE, seen |-> FALSE, tag |-> 0, old |-> <<>>, classes |-> <<>>,
   nobj |-> 0]

ClsIdle ==
  /\ cls_phase = "idle" /\ cls_classes = <<>> /\ cls_objects = <<>>
  /\ cls_self = 0 /\ cls_written = <<>> /\ cls_last = NoOp

BoxIdle == box_phase = "idle" /\ box_globals = {} /\ box_program = <<>>

RecvIdle ==
  /\ recv_phase = "idle" /\ recv_cxt = <<>> /\ recv_state = <<>>
  /\ recv_atom = <<>> /\ recv_expr = <<>> /\ recv_op = "none" /\ recv_out = <<>>

SegIdle ==
  /\ seg_phase = "idle" /\ seg_disable_gc = FALSE /\ seg_functions = <<>>
  /\ seg_strings = <<>> /\ seg_data = <<>> /\ seg_bodies = <<>>

AnyIdle ==
  /\ any_phase = "idle" /\ any_ptr = <<>> /\ any_index = 0
  /\ any_via = "none" /\ any_got = <<>>

RestIdle == RecvIdle /\ SegIdle /\ AnyIdle

LaterIdle == CmpIdle /\ ClsIdle /\ BoxIdle /\ RestIdle

FirstIdle == EmitIdle /\ HeapIdle /\ InfIdle /\ AnfIdle /\ TpIdle

EmitInit ==
  /\ HeapIdle
  /\ InfIdle
  /\ AnfIdle
  /\ TpIdle
  /\ LaterIdle
  /\ phase = "input"
  /\ func \in EmitFuncs
  /\ disable_gc \in BOOLEAN
  /\ insts = <<>> /\ locals = <<>> /\ ltys = <<>> /\ data = <<>>
  /\ pc = 0 /\ cstack = <<>> /\ n_enter = 0 /\ n_exit = 0 /\ halt = "no"

\* the emitted function becomes the state
Emitted(r) ==
  /\ insts' = r.insts
  /\ locals' = r.locals
  /\ ltys' = r.ltys
  /\ data' = r.data

\* translate_func applied to the function
TranslateFunc ==
  /\ phase = "input"
  /\ Emitted(translate_func([disable_gc |-> disable_gc], func, EmptyMap, <<>>))
  /\ phase' = "emitted"
  /\ pc' = 1
  /\ UNCHANGED <<func, disable_gc, cstack, n_enter, n_exit, halt>>
  /\ UNCHANGED nonEmitVars

(***************************************************************************)
(* Execution paths through the emitted instruction sequence: structured    *)
(* control flow of wasm, with every conditional taken both ways.           *)
(***************************************************************************)
RECURSIVE Scan(_, _, _)
\* from instruction i at nesting depth d: the index of the End (stopAtElse
\* FALSE) or of the Else/End (stopAtElse TRUE) closing the open block
Scan(i, d, stopAtElse) ==
  LET op == insts[i].op IN
  IF op \in {"Block", "Loop", "If"} THEN Scan(i + 1, d + 1, stopAtElse)
  ELSE IF op = "End" THEN (IF d = 0 THEN i ELSE Scan(i + 1, d - 1, stopAtElse))
  ELSE IF op = "Else" /\ d = 0 /\ stopAtElse THEN i
  ELSE Scan(i + 1, d, stopAtElse)

Running == phase = "emitted" /\ halt = "no" /\ pc \in 1..Len(insts)

\* a branch to the block at relative depth n
BranchTo(n) ==
  LET j == Len(cstack) - n
      b == cstack[j]
  IN IF b.kind = "Loop"
     THEN /\ pc' = b.start + 1
          /\ cstack' = SubSeq(cstack, 1, j)
     ELSE /\ pc' = b.stop + 1
          /\ cstack' = SubSeq(cstack, 1, j - 1)

StepPlain ==
  /\ Running
  /\ insts[pc].op \notin {"Block", "Loop", "If", "Else", "End", "Br", "BrTable",
                          "Return", "Unreachable", "Call"}
  /\ pc' = pc + 1
  /\ UNCHANGED <<phase, func, disable_gc, insts, locals, ltys, data, cstack,
                 n_enter, n_exit, halt>>
  /\ UNCHANGED nonEmitVars

StepCall ==
  /\ Running
  /\ insts[pc].op = "Call"
  /\ n_enter' = IF insts[pc].s = "gc_enter_fn" THEN Min(n_enter + 1, MaxCount) ELSE n_enter
  /\ n_exit' = IF insts[pc].s = "gc_exit_fn" THEN Min(n_exit + 1, MaxCount) ELSE n_exit
  /\ pc' = pc + 1
  /\ UNCHANGED <<phase, func, disable_gc, insts, locals, ltys, data, cstack, halt>>
  /\ UNCHANGED nonEmitVars

StepBlock ==
  /\ Running
  /\ insts[pc].op \in {"Block", "Loop"}
  /\ cstack' = Append(cstack, [kind |-> insts[pc].op, start |-> pc,
                               stop |-> Scan(pc + 1, 0, FALSE)])
  /\ pc' = pc + 1
  /\ UNCHANGED <<phase, func, disable_gc, insts, locals, ltys, data,
                 n_enter, n_exit, halt>>
  /\ UNCHANGED nonEmitVars

StepIf ==
  /\ Running
  /\ insts[pc].op = "If"
  /\ cstack' = Append(cstack, [kind |-> "If", start |-> pc,
                               stop |-> Scan(pc + 1, 0, FALSE)])
  /\ \/ pc' = pc + 1
     \/ pc' = Scan(pc + 1, 0, TRUE) + 1
  /\ UNCHANGED <<phase, func, disable_gc, insts, locals, ltys, data,
                 n_enter, n_exit, halt>>
  /\ UNCHANGED nonEmitVars

\* the end of the consequent: skip the alternative
StepElse ==
  /\ Running
  /\ insts[pc].op = "Else"
  /\ pc' = cstack[Len(cstack)].stop
  /\ UNCHANGED <<phase, func, disable_gc, insts, locals, ltys, data, cstack,
                 n_enter, n_exit, halt>>
  /\ UNCHANGED nonEmitVars

StepEnd ==
  /\ Running
  /\ insts[pc].op = "End"
  /\ IF cstack = <<>>
     THEN halt' = "end" /\ UNCHANGED <<pc, cstack>>
     ELSE /\ cstack' = SubSeq(cstack, 1, Len(cstack) - 1)
          /\ pc' = pc + 1
          /\ halt' = halt
  /\ UNCHANGED <<phase, func, disable_gc, insts, locals, ltys, data, n_enter, n_exit>>
  /\ UNCHANGED nonEmitVars

StepBr ==
  /\ Running
  /\ insts[pc].op = "Br"
  /\ BranchTo(insts[pc].n)
  /\ UNCHANGED <<phase, func, disable_gc, insts, locals, ltys, data,
                 n_enter, n_exit, halt>>
  /\ UNCHANGED nonEmitVars

StepBrTable ==
  /\ Running
  /\ insts[pc].op = "BrTable"
  /\ \E n \in Range(insts[pc].table) \cup {insts[pc].n} : BranchTo(n)
  /\ UNCHANGED <<phase, func, disable_gc, insts, locals, ltys, data,
                 n_enter, n_exit, halt>>
  /\ UNCHANGED nonEmitVars

StepReturn ==
  /\ Running
  /\ insts[pc].op = "Return"
  /\ halt' = "return"
  /\ UNCHANGED <<phase, func, disable_gc, insts, locals, ltys, data, pc, cstack,
                 n_enter, n_exit>>
  /\ UNCHANGED nonEmitVars

StepTrap ==
  /\ Running
  /\ insts[pc].op = "Unreachable"
  /\ halt' = "trap"
  /\ UNCHANGED <<phase, func, disable_gc, insts, locals, ltys, data, pc, cstack,
                 n_enter, n_exit>>
  /\ UNCHANGED nonEmitVars

EmitNext ==
  \/ TranslateFunc
  \/ StepPlain \/ StepCall \/ StepBlock \/ StepIf \/ StepElse \/ StepEnd
  \/ StepBr \/ StepBrTable \/ StepReturn \/ StepTrap

SpecEmit == EmitInit /\ [][EmitNext]_vars


(***************************************************************************)
(* Properties of the emitted function                                      *)
(***************************************************************************)
GcEmitted == phase = "emitted" /\ ~disable_gc

IsSetSlot(i) ==
  /\ insts[i].op = "Call"
  /\ insts[i].s \in {"set_in_current_shadow_frame_slot",
                     "set_any_in_current_shadow_frame_slot",
                     "set_closure_in_current_shadow_frame_slot"}

\* the NotWasm type of the value local n holds
LocalTy(n) == (CHOOSE e \in Range(ltys) : e.n = n).ty

\* C1: with GC enabled the body starts with the call of gc_enter_fn (after
\* the push of its argument), gc_enter_fn is called once, and every path
\* that ends at a Return or at the final End has called gc_exit_fn exactly
\* once, after gc_enter_fn.
C1_EnterFirstExitOnce ==
  GcEmitted =>
    /\ insts[1].op = "I32Const"
    /\ insts[2] = CallRt("gc_enter_fn")
    /\ (pc > 2 => n_enter = 1)
    /\ (n_exit > 0 => n_enter = 1)
    /\ (halt \in {"return", "end"} => n_exit = 1)

\* a function with a Return in one branch, left by falling off its end
C1_Witness ==
  /\ GcEmitted
  /\ halt = "end"
  /\ n_exit = 1
  /\ \E i \in 1..Len(insts) : insts[i].op = "Return"

\* C2: with GC enabled every write of a local whose type is a GC root is a
\* TeeLocal followed by I32Const(index) and the call of the
\* set_*_in_current_shadow_frame_slot function of its type; this includes the
\* result local and the %mfn local of the method dispatch.
C2_RootWritesPublished ==
  GcEmitted =>
    \A i \in 1..Len(insts) :
      (insts[i].op \in {"SetLocal", "TeeLocal"} /\ is_gc_root(LocalTy(insts[i].n))) =>
        /\ insts[i].op = "TeeLocal"
        /\ i + 2 <= Len(insts)
        /\ insts[i + 1] = InsN("I32Const", insts[i].n)
        /\ insts[i + 2] = CallRt(shadow_frame_fn(LocalTy(insts[i].n)))

\* C3: the constant passed to gc_enter_fn is |params| + |locals|, the local
\* indices handed out are pairwise different, and every slot index passed to
\* a set_*_in_current_shadow_frame_slot call is below that constant.
C3_FrameSize ==
  GcEmitted =>
    /\ insts[1] = InsN("I32Const", Len(func.params) + Len(locals))
    /\ Len(ltys) = Len(func.params) + Len(locals)
    /\ \A i, j \in 1..Len(ltys) : i # j => ltys[i].n # ltys[j].n
    /\ \A i \in 2..Len(insts) :
         IsSetSlot(i) => /\ insts[i - 1].op = "I32Const"
                         /\ insts[i - 1].n < insts[1].n

\* a function with two declared locals, one of them published in a slot
\* above the parameters
C3_Witness ==
  /\ GcEmitted
  /\ Len(locals) >= 2
  /\ \E i \in 2..Len(insts) : IsSetSlot(i) /\ insts[i - 1].n >= Len(func.params)


(***************************************************************************)
(*                     THE RUNTIME HEAP (allocator/mod.rs)                 *)
(* Addresses and sizes are counted in words of ALIGNMENT bytes; the buffer *)
(* is the words 0 .. HeapWords - 1.  A word is a record                    *)
(*   [kind, tt, marked, n]   kind \in {"zero", "tag", "int", "ptr", "none"}*)
(* where a tag has its type tag tt, its mark and its class tag n, and a    *)
(* data word has its value n.  A heap is a record                          *)
(*   [mem, free_list, shadow_stack, live, ev, panicked]                    *)
(* live (the allocations made and not swept) and ev (what the running call *)
(* did: "fit"/"nofit" for an answer of find_free_size, "gc") are history.  *)
(***************************************************************************)
HeapWords == 4     \* Heap::new(size)
MaxFrames == 2     \* shadow frames on the shadow stack
MaxRoots == 2      \* pointers in one shadow frame
MaxGarbage == 2    \* size read from a word that is not a tag
MaxBlocks == 3     \* blocks on the free list

tag_size == 1

ZeroWord == [kind |-> "zero", tt |-> "", marked |-> FALSE, n |-> 0]
TagWord(tt, cls) == [kind |-> "tag", tt |-> tt, marked |-> FALSE, n |-> cls]
DataWord(kind, n) == [kind |-> kind, tt |-> "", marked |-> FALSE, n |-> n]

\* ClassList::get_class_size: class c has c fields
get_class_size(cls) == cls

\* HeapPtr::get_data_size of the allocation behind a tag
get_data_size(tag) == IF tag.tt = "Class" THEN get_class_size(tag.n) ELSE 1

\* a write into the buffer (a write past the buffer is outside the model)
Write(ws, a, w) == IF a \in DOMAIN ws THEN [ws EXCEPT ![a] = w] ELSE ws

RECURSIVE insert(_, _, _)
\* FreeList::insert
insert(fl, start, size) ==
  IF fl = <<>> THEN <<[start |-> start, size |-> size]>>
  ELSE LET block == Head(fl)
           new_block_end == start + size
       IN IF new_block_end < block.start
          THEN <<[start |-> start, size |-> size]>> \o fl
          ELSE IF new_block_end = block.start
          THEN <<[start |-> start, size |-> block.size + size]>> \o Tail(fl)
          ELSE IF start = start + size
          THEN <<[start |-> block.start, size |-> block.size + size]>> \o Tail(fl)
          ELSE IF start = block.start /\ size = block.size
          THEN fl
          ELSE <<block>> \o insert(Tail(fl), start, size)

RECURSIVE find_free_size(_, _)
\* FreeList::find_free_size: [ok, addr, fl]
find_free_size(fl, size) ==
  IF fl = <<>> THEN [ok |-> FALSE, addr |-> 0, fl |-> fl]
  ELSE LET block == Head(fl) IN
       IF size = block.size
       THEN [ok |-> TRUE, addr |-> block.start, fl |-> Tail(fl)]
       ELSE IF size < block.size
       THEN [ok |-> TRUE, addr |-> block.start,
             fl |-> <<[start |-> block.start + size, size |-> block.size - size]>> \o Tail(fl)]
       ELSE LET r == find_free_size(Tail(fl), size)
            IN [r EXCEPT !.fl = <<block>> \o @]

\* Heap::new
HeapNew(size) ==
  [mem |-> [a \in 0..(size - 1) |-> ZeroWord],
   free_list |-> <<[start |-> 0, size |-> size]>>,
   shadow_stack |-> << <<>> >>,
   live |-> {}, ev |-> <<>>, panicked |-> FALSE]

\* Heap::update_shadow_frame; last_mut().unwrap() panics on an empty stack
update_shadow_frame(h, ptr) ==
  IF h.shadow_stack = <<>> THEN [h EXCEPT !.panicked = TRUE]
  ELSE [h EXCEPT !.shadow_stack[Len(h.shadow_stack)] = Append(@, ptr)]

\* the result of an allocation attempt: [ok, ptr, h]
Failed(h) == [ok |-> FALSE, ptr |-> 0, h |-> [h EXCEPT !.ev = Append(@, "nofit")]]

\* alloc_tag once find_free_size has answered r
alloc_tag_at(h, r, tt, value) ==
  IF ~r.ok THEN Failed(h)
  ELSE [ok |-> TRUE, ptr |-> r.addr,
        h |-> [update_shadow_frame(h, r.addr) EXCEPT
                 !.free_list = r.fl,
                 !.ev = Append(@, "fit"),
                 !.mem = Write(Write(@, r.addr, TagWord(tt, 0)), r.addr + 1, value),
                 !.live = @ \cup {[ptr |-> r.addr, size |-> tag_size + 1]}]]

\* Heap::alloc_tag
alloc_tag(h, tt, value) ==
  alloc_tag_at(h, find_free_size(h.free_list, tag_size + 1), tt, value)

\* Heap::alloc of an i32
alloc(h, v) == alloc_tag(h, "I32", DataWord("int", v))

RECURSIVE write_none(_, _, _)
\* alloc_object_data: for opt_any in values_slice { *opt_any = None }
write_none(ws, a, n) ==
  IF n = 0 THEN ws ELSE write_none(Write(ws, a, DataWord("none", 0)), a + 1, n - 1)

\* alloc_object_data once find_free_size has answered r
alloc_object_data_at(h, r, type_tag) ==
  IF ~r.ok THEN Failed(h)
  ELSE [ok |-> TRUE, ptr |-> r.addr,
        h |-> [update_shadow_frame(h, r.addr) EXCEPT
                 !.free_list = r.fl,
                 !.ev = Append(@, "fit"),
                 !.mem = write_none(Write(@, r.addr, TagWord("Class", type_tag)),
                                    r.addr + 1, get_class_size(type_tag)),
                 !.live = @ \cup {[ptr |-> r.addr,
                                   size |-> tag_size + get_class_size(type_tag)]}]]

\* Heap::object_data_size
object_data_size(type_tag) == get_class_size(type_tag)

\* Heap::alloc_object_data
alloc_object_data(h, type_tag) ==
  alloc_object_data_at(h, find_free_size(h.free_list, tag_size + object_data_size(type_tag)),
                       type_tag)

\* alloc_object once the object data is allocated (or not): the
\* ObjectPtrPtr that holds the pointer to the data
alloc_object_ptr(d) ==
  IF ~d.ok THEN d
  ELSE alloc_tag(d.h, "ObjectPtrPtr", DataWord("ptr", d.ptr))

\* Heap::alloc_object
alloc_object(h, type_tag) == alloc_object_ptr(alloc_object_data(h, type_tag))


RECURSIVE members(_, _, _)
\* mark_phase: the AnyEnum::Ptr members of the object at root, in order
members(ws, root, i) ==
  IF i > get_class_size(ws[root].n) \/ root + i \notin DOMAIN ws THEN <<>>
  ELSE (IF ws[root + i].kind = "ptr" THEN <<ws[root + i].n>> ELSE <<>>)
       \o members(ws, root, i + 1)

RECURSIVE mark_phase(_, _)
\* Heap::mark_phase.  A root that is no tag is passed over: what the mark
\* written into such a word changes is not followed.
mark_phase(ws, roots) ==
  IF roots = <<>> THEN ws
  ELSE LET root == Head(roots) IN
       IF root \notin DOMAIN ws \/ ws[root].kind # "tag" \/ ws[root].marked
       THEN mark_phase(ws, Tail(roots))
       ELSE IF ws[root].tt # "Class"
       THEN mark_phase([ws EXCEPT ![root].marked = TRUE], Tail(roots))
       ELSE mark_phase([ws EXCEPT ![root].marked = TRUE],
                       Tail(roots) \o members(ws, root, 1))

\* sweep_phase: free_list_ptr.insert(ptr, size)
sweep_free(h, ptr, size) ==
  [h EXCEPT !.free_list = insert(@, ptr, size),
            !.live = {a \in @ : a.ptr # ptr}]

\* what sweep_phase reads at ptr: the tag there, or, at a word that is no
\* tag, any size up to MaxGarbage (zeroed memory reads as unmarked, the mark
\* read from a data word is arbitrary)
sweep_reads(ws, ptr) ==
  IF ws[ptr].kind = "tag"
  THEN {[size |-> tag_size + get_data_size(ws[ptr]), marked |-> ws[ptr].marked]}
  ELSE {[size |-> g, marked |-> m] :
          g \in 1..MaxGarbage,
          m \in IF ws[ptr].kind = "zero" THEN {FALSE} ELSE BOOLEAN}

RECURSIVE sweep_phase(_, _)
\* Heap::sweep_phase from ptr on: the set of heaps it can leave
sweep_phase(h, ptr) ==
  IF ~(ptr < HeapWords) THEN {h}
  ELSE UNION { IF t.marked
               THEN sweep_phase([h EXCEPT !.mem[ptr].marked = FALSE], ptr + t.size)
               ELSE sweep_phase(sweep_free(h, ptr, t.size), ptr + t.size)
               : t \in sweep_reads(h.mem, ptr) }

RECURSIVE flatten(_)
\* shadow_stack.iter().flatten()
flatten(ss) == IF ss = <<>> THEN <<>> ELSE Head(ss) \o flatten(Tail(ss))

\* Heap::gc: the set of heaps it can leave
gc(h) ==
  sweep_phase([h EXCEPT !.mem = mark_phase(@, flatten(h.shadow_stack)),
                        !.ev = Append(@, "gc")], 0)

\* the Err / None arm of the *_or_gc functions: the retry after gc, which
\* panics ("out of memory even after gc") when it fails
expect(r) == IF r.ok THEN r ELSE [r EXCEPT !.h.panicked = TRUE]

\* an alloc_or_gc that collects before it looks at its first attempt
alloc_or_gc_eager(first, v) == {expect(alloc(h1, v)) : h1 \in gc(first.h)}

\* Heap::alloc_or_gc: the set of results
alloc_or_gc_after(first, v) ==
  IF first.ok THEN {first} ELSE {expect(alloc(h1, v)) : h1 \in gc(first.h)}

alloc_or_gc(h, v) == alloc_or_gc_after(alloc(h, v), v)

\* Heap::alloc_object_or_gc: the set of results
alloc_object_or_gc_after(first, type_tag) ==
  IF first.ok THEN {first} ELSE {expect(alloc_object(h1, type_tag)) : h1 \in gc(first.h)}

alloc_object_or_gc(h, type_tag) ==
  alloc_object_or_gc_after(alloc_object(h, type_tag), type_tag)

\* Heap::alloc_object_data_or_gc: the set of results
alloc_object_data_or_gc_after(first, type_tag) ==
  IF first.ok THEN {first}
  ELSE {expect(alloc_object_data(h1, type_tag)) : h1 \in gc(first.h)}

alloc_object_data_or_gc(h, type_tag) ==
  alloc_object_data_or_gc_after(alloc_object_data(h, type_tag), type_tag)


(***************************************************************************)
(* The heap as a state machine: one action per public operation.           *)
(***************************************************************************)
Vals == {32, 64}
Classes == {1}

HeapInit ==
  /\ EmitIdle
  /\ InfIdle
  /\ AnfIdle
  /\ TpIdle
  /\ LaterIdle
  /\ mem = HeapNew(HeapWords).mem
  /\ free_list = HeapNew(HeapWords).free_list
  /\ shadow_stack = HeapNew(HeapWords).shadow_stack
  /\ live = {} /\ panicked = FALSE
  /\ last = [op |-> "new", ok |-> TRUE, ptr |-> 0, ev |-> <<>>]

\* the heap at the start of a call
HeapNow ==
  [mem |-> mem, free_list |-> free_list, shadow_stack |-> shadow_stack,
   live |-> live, ev |-> <<>>, panicked |-> panicked]

\* the model keeps the frames and the free list within its bounds
InBounds(h) ==
  /\ \A i \in 1..Len(h.shadow_stack) : Len(h.shadow_stack[i]) <= MaxRoots
  /\ Len(h.free_list) <= MaxBlocks

\* the call op returned r = [ok, ptr, h]
Returned(op, r) ==
  /\ InBounds(r.h)
  /\ mem' = r.h.mem
  /\ free_list' = r.h.free_list
  /\ shadow_stack' = r.h.shadow_stack
  /\ live' = r.h.live
  /\ panicked' = r.h.panicked
  /\ last' = [op |-> op, ok |-> r.ok, ptr |-> r.ptr, ev |-> r.h.ev]

Alloc ==
  /\ ~panicked
  /\ \E v \in Vals : Returned("alloc", alloc(HeapNow, v))
  /\ UNCHANGED nonHeapVars

AllocOrGc ==
  /\ ~panicked
  /\ \E v \in Vals : \E r \in alloc_or_gc(HeapNow, v) : Returned("alloc_or_gc", r)
  /\ UNCHANGED nonHeapVars

AllocObject ==
  /\ ~panicked
  /\ \E c \in Classes : Returned("alloc_object", alloc_object(HeapNow, c))
  /\ UNCHANGED nonHeapVars

AllocObjectOrGc ==
  /\ ~panicked
  /\ \E c \in Classes : \E r \in alloc_object_or_gc(HeapNow, c) :
        Returned("alloc_object_or_gc", r)
  /\ UNCHANGED nonHeapVars

AllocObjectDataOrGc ==
  /\ ~panicked
  /\ \E c \in Classes : \E r \in alloc_object_data_or_gc(HeapNow, c) :
        Returned("alloc_object_data_or_gc", r)
  /\ UNCHANGED nonHeapVars

\* Heap::push_shadow_frame with a frame of at most one live pointer
PushShadowFrame ==
  /\ ~panicked
  /\ Len(shadow_stack) < MaxFrames
  /\ \E frame \in {<<>>} \cup {<<a.ptr>> : a \in live} :
       shadow_stack' = Append(shadow_stack, frame)
  /\ last' = [op |-> "push_shadow_frame", ok |-> TRUE, ptr |-> 0, ev |-> <<>>]
  /\ UNCHANGED <<mem, free_list, live, panicked>>
  /\ UNCHANGED nonHeapVars

\* Heap::pop_shadow_frame, called after a push_shadow_frame (its contract)
PopShadowFrame ==
  /\ ~panicked
  /\ Len(shadow_stack) > 1
  /\ shadow_stack' = SubSeq(shadow_stack, 1, Len(shadow_stack) - 1)
  /\ last' = [op |-> "pop_shadow_frame", ok |-> TRUE, ptr |-> 0, ev |-> <<>>]
  /\ UNCHANGED <<mem, free_list, live, panicked>>
  /\ UNCHANGED nonHeapVars

Gc ==
  /\ ~panicked
  /\ \E h \in gc(HeapNow) : Returned("gc", [ok |-> TRUE, ptr |-> 0, h |-> h])
  /\ UNCHANGED nonHeapVars

\* ClassPtr::write_at: a pointer to a live allocation into a field of a
\* live object
WriteAt ==
  /\ ~panicked
  /\ \E a \in live, b \in live :
       /\ a.ptr \in DOMAIN mem
       /\ mem[a.ptr].kind = "tag" /\ mem[a.ptr].tt = "Class"
       /\ \E index \in 0..(get_class_size(mem[a.ptr].n) - 1) :
            mem' = Write(mem, a.ptr + tag_size + index, DataWord("ptr", b.ptr))
  /\ last' = [op |-> "write_at", ok |-> TRUE, ptr |-> 0, ev |-> <<>>]
  /\ UNCHANGED <<free_list, shadow_stack, live, panicked>>
  /\ UNCHANGED nonHeapVars

HeapNext ==
  \/ Alloc \/ AllocOrGc \/ AllocObject \/ AllocObjectOrGc \/ AllocObjectDataOrGc
  \/ PushShadowFrame \/ PopShadowFrame \/ Gc \/ WriteAt

SpecHeap == HeapInit /\ [][HeapNext]_vars


(***************************************************************************)
(* Properties of the heap.                                                 *)
(***************************************************************************)
\* the words of the block [start, size] / of the allocation a = [ptr, size]
Words(start, size) == start..(start + size - 1)

\* the state of tests.rs trivial_gc before its gc(): a heap of four words
\* filled by two alloc calls (x at 0, y at 2), and the one frame <<x>> pushed
TrivialGcReady ==
  /\ free_list = <<>>
  /\ live = {[ptr |-> 0, size |-> 2], [ptr |-> 2, size |-> 2]}
  /\ shadow_stack = << <<0, 2>>, <<0>> >>
  /\ mem[0] = TagWord("I32", 0) /\ mem[2] = TagWord("I32", 0)

\* C4: after a heap has been filled by alloc calls and x is the only pointer
\* passed to push_shadow_frame, gc() reclaims y, so that a following alloc of
\* the same size finds a block, and x keeps its value.
C4_GcReclaimsUnpushed ==
  [][(TrivialGcReady /\ last'.op = "gc") =>
       /\ find_free_size(free_list', tag_size + 1).ok
       /\ mem'[1] = mem[1]]_vars

\* a word of the buffer that holds a tag
IsTag(a) == a \in DOMAIN mem /\ mem[a].kind = "tag"

\* the words of the allocation behind the tag at a
Extent(a) == Words(a, tag_size + get_data_size(mem[a]))

\* the heap pointers stored in the allocation behind the tag at a
Pointees(a) ==
  {mem[w].n : w \in {w \in (Extent(a) \cap DOMAIN mem) \ {a} : mem[w].kind = "ptr"}}

RECURSIVE Closure(_)
\* what a set of pointers reaches through any chain of heap pointers
Closure(S) ==
  LET T == S \cup UNION {Pointees(a) : a \in {a \in S : IsTag(a)}}
  IN IF T = S THEN S ELSE Closure(T)

Reachable == Closure(Range(flatten(shadow_stack)))

\* C5: no block on the free list overlaps an allocation that is reachable
\* from a shadow-stack root through any chain of heap pointers, whatever the
\* type tag of the allocations on the chain.
C5_NoFreeBlockOverlapsReachable ==
  \A a \in Reachable : IsTag(a) =>
    \A i \in 1..Len(free_list) :
      Extent(a) \cap Words(free_list[i].start, free_list[i].size) = {}

\* some single free block has at least n words
Fits(fl, n) == \E i \in 1..Len(fl) : fl[i].size >= n

\* C6: Heap::alloc succeeds iff some single free block has at least
\* tag_size + size words; on success the region returned is disjoint from
\* every earlier allocation that has not been freed, whose words read back
\* unchanged; on failure the free list and the shadow stack are as they were.
C6_AllocContract ==
  [][last'.op = "alloc" =>
       /\ last'.ok <=> Fits(free_list, tag_size + 1)
       /\ last'.ok =>
            \A a \in live :
              /\ Words(a.ptr, a.size) \cap Words(last'.ptr, tag_size + 1) = {}
              /\ \A w \in Words(a.ptr, a.size) \cap DOMAIN mem : mem'[w] = mem[w]
       /\ ~last'.ok => free_list' = free_list /\ shadow_stack' = shadow_stack]_vars

\* the positions of ev at which gc() ran
GcAt(ev) == {i \in 1..Len(ev) : ev[i] = "gc"}

\* what one allocation attempt of op can leave in ev
Attempts(op) ==
  IF op = "alloc_object_or_gc"
  THEN {<<"fit", "fit">>, <<"fit", "nofit">>, <<"nofit">>}
  ELSE {<<"fit">>, <<"nofit">>}

\* C7: alloc_or_gc, alloc_object_or_gc and alloc_object_data_or_gc run gc()
\* only after their first attempt has failed and at most once, then retry
\* exactly once and panic if the retry fails; when the first attempt
\* succeeds gc() is not run.
C7_GcOnlyAfterFailure ==
  last.op \in {"alloc_or_gc", "alloc_object_or_gc", "alloc_object_data_or_gc"} =>
    LET ev == last.ev
    IN IF GcAt(ev) = {}
       THEN ev \in Attempts(last.op) /\ "nofit" \notin Range(ev)
            /\ last.ok /\ ~panicked
       ELSE \E g \in GcAt(ev) :
              /\ GcAt(ev) = {g}
              /\ SubSeq(ev, 1, g - 1) \in Attempts(last.op)
              /\ ev[g - 1] = "nofit"
              /\ SubSeq(ev, g + 1, Len(ev)) \in Attempts(last.op)
              /\ last.ok <=> ev[Len(ev)] = "fit"
              /\ panicked <=> ~last.ok

\* a call whose first attempt failed, whose gc() made room and whose retry
\* succeeded
C7_Witness ==
  /\ last.op = "alloc_object_or_gc"
  /\ last.ev = <<"nofit", "gc", "fit", "fit">>


(***************************************************************************)
(*                  TYPE INFERENCE (jankyscript/typeinf.rs)                *)
(* A type is a record [k] or the metavariable [k |-> "Metavar", n].  An    *)
(* expression is a record with its kind in field e:                        *)
(*   Lit [l]   Id [x, t]   Array [es]   Dot [o, f]   JsOp [op, es, ts]     *)
(*   Assign [x, t, v]   Coercion [src, dst, of] (a Coercion::Meta)         *)
(*   Binary [op, es]                                                       *)
(* and a statement has its kind in field s: Var [x, t, init], Expr [ex],   *)
(* Block [ss].  Function types, Call, Func and Return are not modelled.    *)
(***************************************************************************)
Ty(k) == [k |-> k]
Metavar(n) == [k |-> "Metavar", n |-> n]

JLit(l) == [e |-> "Lit", l |-> l]
JId(x) == [e |-> "Id", x |-> x, t |-> Ty("Missing")]
JArray(es) == [e |-> "Array", es |-> es]
JObject(keys, es) == [e |-> "Object", keys |-> keys, es |-> es]
JDot(o) == [e |-> "Dot", o |-> o, f |-> "y"]
JsOp(op, es) == [e |-> "JsOp", op |-> op, es |-> es, ts |-> <<>>]
JAssign(x, v) == [e |-> "Assign", x |-> x, t |-> Ty("Missing"), v |-> v]
Coercion(src, dst, of) == [e |-> "Coercion", src |-> src, dst |-> dst, of |-> of]
JBinary(op, es) == [e |-> "Binary", op |-> op, es |-> es]
JVar(x, init) == [s |-> "Var", x |-> x, t |-> Ty("Missing"), init |-> init]
JExpr(ex) == [s |-> "Expr", ex |-> ex]
JBlock(ss) == [s |-> "Block", ss |-> ss]

\* the formulas handed to the solver
Eq(a, b) == [c |-> "eq", a |-> a, b |-> b]
W(n) == [c |-> "w", n |-> n]
NotW(n) == [c |-> "not", n |-> n]
And(cs) == [c |-> "and", cs |-> cs]
Or(cs) == [c |-> "or", cs |-> cs]

\* OVERLOADS: the typed overloads of an operator, its overload on any and
\* the operator each of them lowers to
overloads(op) ==
  << [args |-> <<Ty("Int"), Ty("Int")>>, ret |-> Ty("Int"), lower |-> "IntAdd"],
     [args |-> <<Ty("String"), Ty("String")>>, ret |-> Ty("String"), lower |-> "StrCat"] >>
on_any(op) ==
  [args |-> <<Ty("Any"), Ty("Any")>>, ret |-> Ty("Any"), lower |-> "AnyAdd"]

typ_lit(l) ==
  CASE l = "float" -> Ty("Float")
    [] l = "int" -> Ty("Int")
    [] l = "str" -> Ty("String")
    [] l = "bool" -> Ty("Bool")
    [] OTHER -> Ty("Any")

coerce(src, dst, ex) ==
  IF ex.e = "Coercion" /\ ex.dst = Ty("Any") /\ src = Ty("Any")
  THEN Coercion(ex.src, dst, ex.of)
  ELSE Coercion(src, dst, ex)

\* Typeinf::t panics (todo!) on a type the solver has no sort for
t_panics(t) == t.k \in {"Float", "Missing"}

\* fresh_metavar and fresh_weight: the index handed out is the old count
fresh_metavar(Z) == [Z EXCEPT !.nv = @ + 1]
fresh_weight(Z) == [Z EXCEPT !.nw = @ + 1]

\* what cgen_expr hands back: the solver state, the rewritten expression,
\* its constraint and its type
Cgen(Z, ex, phi, t) == [Z |-> Z, e |-> ex, phi |-> phi, t |-> t]

\* cgen_expr, Expr::Lit
cgen_lit(Z, ex) ==
  LET t == typ_lit(ex.l)
      alpha_t == Metavar(Z.nv)
      w == Z.nw
      Z1 == fresh_weight(fresh_metavar(Z))
  IN Cgen([Z1 EXCEPT !.panic = @ \/ t_panics(t)],
          coerce(t, alpha_t, ex),
          Or(<<And(<<W(w), Eq(alpha_t, t)>>), And(<<NotW(w), Eq(alpha_t, Ty("Any"))>>)>>),
          alpha_t)

\* an array arm that leaves the types of the members free
cgen_array_unforced(ex, r) ==
  Cgen(r.Z, [ex EXCEPT !.es = r.es], And(r.phis), Ty("Array"))

\* cgen_expr, Expr::Array, once cgen_exprs has answered r
cgen_array(ex, r) ==
  Cgen(r.Z, [ex EXCEPT !.es = r.es],
       And(r.phis \o [i \in DOMAIN r.ts |-> Eq(r.ts[i], Ty("Any"))]),
       Ty("Array"))

\* cgen_expr, Expr::Object, once cgen_exprs has answered r for the values
\* of the properties
cgen_object(ex, r) ==
  Cgen(r.Z, [ex EXCEPT !.es = r.es],
       And(r.phis \o [i \in DOMAIN r.ts |-> Eq(r.ts[i], Ty("Any"))]),
       Ty("DynObject"))

\* cgen_expr, Expr::Dot, once the object is done: the coercion goes around
\* the whole Dot expression (expr.take())
cgen_dot(ex, w, r) ==
  Cgen(r.Z, coerce(r.t, Ty("DynObject"), [ex EXCEPT !.o = r.e]),
       And(<<r.phi, Or(<<And(<<Eq(r.t, Ty("DynObject")), W(w)>>),
                         And(<<Eq(r.t, Ty("Any")), NotW(w)>>)>>)>>),
       Ty("Any"))

RECURSIVE make_betas(_, _, _)
\* cgen_expr, Expr::JsOp: a fresh metavariable for each argument whose
\* type is not one already: [Z, es, betas]
make_betas(Z, es, ts) ==
  IF es = <<>> THEN [Z |-> Z, es |-> <<>>, betas |-> <<>>]
  ELSE LET own == Head(ts).k = "Metavar"
           beta_t == IF own THEN Head(ts) ELSE Metavar(Z.nv)
           arg == IF own THEN Head(es) ELSE coerce(Head(ts), beta_t, Head(es))
           r == make_betas(IF own THEN Z ELSE fresh_metavar(Z), Tail(es), Tail(ts))
       IN [Z |-> r.Z, es |-> <<arg>> \o r.es, betas |-> <<beta_t>> \o r.betas]

\* cgen_expr, Expr::JsOp: the disjunct of one overload, and that of any
overload_case(sig, w, alpha_t, args_t, betas_t) ==
  And(<<W(w)>>
      \o [i \in 1..(2 * Len(args_t)) |->
            IF i % 2 = 1 THEN Eq(args_t[(i + 1) \div 2], sig.args[(i + 1) \div 2])
            ELSE Eq(sig.args[i \div 2], betas_t[i \div 2])]
      \o <<Eq(alpha_t, sig.ret)>>)
any_case(sig, w, alpha_t, betas_t) ==
  And(<<NotW(w)>> \o [i \in DOMAIN betas_t |-> Eq(betas_t[i], Ty("Any"))]
      \o <<Eq(alpha_t, sig.ret)>>)

\* cgen_expr, Expr::JsOp, once the arguments are done (r) and have their
\* metavariables (b)
cgen_jsop(ex, w, alpha_t, r, b) ==
  Cgen(b.Z, [ex EXCEPT !.es = b.es, !.ts = b.betas],
       And(r.phis \o
           << Or([i \in DOMAIN overloads(ex.op) |->
                    overload_case(overloads(ex.op)[i], w, alpha_t, r.ts, b.betas)]
                 \o <<any_case(on_any(ex.op), w, alpha_t, b.betas)>>) >>),
       alpha_t)

\* cgen_expr, Expr::Assign to an identifier, once the right side is done
cgen_assign(ex, t, r) ==
  Cgen(r.Z, [ex EXCEPT !.t = t, !.v = r.e], And(<<r.phi, Eq(t, r.t)>>), t)

RECURSIVE cgen_expr(_, _)
RECURSIVE cgen_exprs(_, _)

\* cgen_exprs: the answer for the first expression h before the others
cgen_cons(h, r) ==
  [Z |-> r.Z, es |-> <<h.e>> \o r.es, phis |-> <<h.phi>> \o r.phis, ts |-> <<h.t>> \o r.ts]
cgen_tail(h, es) == cgen_cons(h, cgen_exprs(h.Z, es))

\* Typeinf::cgen_exprs: [Z, es, phis, ts]
cgen_exprs(Z, es) ==
  IF es = <<>> THEN [Z |-> Z, es |-> <<>>, phis |-> <<>>, ts |-> <<>>]
  ELSE cgen_tail(cgen_expr(Z, Head(es)), Tail(es))

cgen_jsop_args(ex, w, alpha_t, r) ==
  cgen_jsop(ex, w, alpha_t, r, make_betas(r.Z, r.es, r.ts))

\* Typeinf::cgen_expr
cgen_expr(Z, ex) ==
  CASE ex.e = "Lit" -> cgen_lit(Z, ex)
    [] ex.e = "Array" -> cgen_array(ex, cgen_exprs(Z, ex.es))
    [] ex.e = "Object" -> cgen_object(ex, cgen_exprs(Z, ex.es))
    [] ex.e = "Id" -> Cgen(Z, [ex EXCEPT !.t = Z.env[ex.x]], And(<<>>), Z.env[ex.x])
    [] ex.e = "Dot" -> cgen_dot(ex, Z.nw, cgen_expr(fresh_weight(Z), ex.o))
    [] ex.e = "JsOp" ->
         cgen_jsop_args(ex, Z.nw, Metavar(Z.nv),
                        cgen_exprs(fresh_metavar(fresh_weight(Z)), ex.es))
    [] ex.e = "Assign" -> cgen_assign(ex, Z.env[ex.x], cgen_expr(Z, ex.v))
    [] OTHER -> Cgen([Z EXCEPT !.panic = TRUE], ex, And(<<>>), Ty("Missing"))

\* Expr::is_undefined
is_undefined(ex) == ex.e = "Lit" /\ ex.l = "undefined"

\* cgen_stmt, Stmt::Var, once the initialiser is done: [Z, s]
cgen_var(st, alpha, r) ==
  [Z |-> [r.Z EXCEPT !.phi = @ \o <<r.phi, Eq(r.t, alpha)>>],
   s |-> [st EXCEPT !.t = alpha, !.init = r.e]]

\* cgen_stmt, Stmt::Expr, once the expression is done
cgen_expr_stmt(st, r) ==
  [Z |-> [r.Z EXCEPT !.phi = Append(@, r.phi)], s |-> [st EXCEPT !.ex = r.e]]

RECURSIVE cgen_stmt(_, _)
RECURSIVE cgen_stmts(_, _)

cgen_stmts_cons(h, r) == [Z |-> r.Z, ss |-> <<h.s>> \o r.ss]
cgen_stmts_tail(h, ss) == cgen_stmts_cons(h, cgen_stmts(h.Z, ss))

\* cgen_stmt, Stmt::Block: for s in stmts.iter_mut()
cgen_stmts(Z, ss) ==
  IF ss = <<>> THEN [Z |-> Z, ss |-> <<>>]
  ELSE cgen_stmts_tail(cgen_stmt(Z, Head(ss)), Tail(ss))

cgen_block(st, r) == [Z |-> r.Z, s |-> [st EXCEPT !.ss = r.ss]]

\* Typeinf::cgen_stmt: [Z, s]
cgen_stmt(Z, st) ==
  CASE st.s = "Var" ->
         IF is_undefined(st.init)
         THEN [Z |-> [fresh_metavar(Z) EXCEPT !.env[st.x] = Metavar(Z.nv)],
               s |-> [st EXCEPT !.t = Metavar(Z.nv)]]
         ELSE cgen_var(st, Metavar(Z.nv),
                       cgen_expr([fresh_metavar(Z) EXCEPT !.env[st.x] = Metavar(Z.nv)],
                                 st.init))
    [] st.s = "Expr" -> cgen_expr_stmt(st, cgen_expr(Z, st.ex))
    [] OTHER -> cgen_block(st, cgen_stmts(Z, st.ss))

(***************************************************************************)
(* The solver (solver.check, get_model): a model gives every metavariable  *)
(* a type and every weight a truth value; the one returned satisfies the   *)
(* asserted formulas and as many weights as any model does.                *)
(***************************************************************************)
RECURSIVE TypesIn(_)
\* the ground types a formula names
TypesIn(phi) ==
  CASE phi.c = "eq" -> {t \in {phi.a, phi.b} : t.k # "Metavar"}
    [] phi.c \in {"and", "or"} -> UNION {TypesIn(phi.cs[i]) : i \in DOMAIN phi.cs}
    [] OTHER -> {}

\* the values the models give to metavariables: every metavariable is
\* equated with a type the formulas name, or with any
Sort(Z) == TypesIn(And(Z.phi)) \cup {Ty("Any")}

Val(t, m) == IF t.k = "Metavar" THEN m.v[t.n] ELSE t

RECURSIVE Holds(_, _)
Holds(phi, m) ==
  CASE phi.c = "eq" -> Val(phi.a, m) = Val(phi.b, m)
    [] phi.c = "w" -> m.w[phi.n]
    [] phi.c = "not" -> ~m.w[phi.n]
    [] phi.c = "and" -> \A i \in DOMAIN phi.cs : Holds(phi.cs[i], m)
    [] OTHER -> \E i \in DOMAIN phi.cs : Holds(phi.cs[i], m)

Models(Z) ==
  {m \in [v : [0..(Z.nv - 1) -> Sort(Z)], w : [0..(Z.nw - 1) -> BOOLEAN]] :
     Holds(And(Z.phi), m)}

Weight(m) == Cardinality({i \in DOMAIN m.w : m.w[i]})

\* the models Optimize can return
Optimal(ms) == {m \in ms : \A o \in ms : Weight(o) <= Weight(m)}

\* Typeinf::z3_to_typ has no case for bool (todo!)
z3_to_typ_panics(t) == t.k = "Bool"

\* SubtMetavarVisitor::enter_typ
enter_typ(t, vs) == IF t.k = "Metavar" THEN vs[t.n] ELSE t

\* OVERLOADS.target: the overloads whose argument types are arg_ts
target(op, arg_ts) ==
  {i \in DOMAIN overloads(op) : overloads(op)[i].args = arg_ts}

\* SubtMetavarVisitor::exit_expr
exit_expr(ex) ==
  CASE ex.e = "Coercion" -> IF ex.src = ex.dst THEN ex.of ELSE ex
    [] ex.e = "JsOp" ->
         IF target(ex.op, ex.ts) # {}
         THEN JBinary(overloads(ex.op)[CHOOSE i \in target(ex.op, ex.ts) : TRUE].lower, ex.es)
         ELSE JBinary(on_any(ex.op).lower,
                      [i \in DOMAIN ex.es |->
                         coerce(Ty("Any"), on_any(ex.op).args[i], ex.es[i])])
    [] OTHER -> ex

RECURSIVE walk_expr(_, _)
\* Expr::walk with the SubtMetavarVisitor: the types on the way in, the
\* subexpressions, then exit_expr
walk_expr(ex, vs) ==
  exit_expr(
    CASE ex.e = "Id" -> [ex EXCEPT !.t = enter_typ(@, vs)]
      [] ex.e \in {"Array", "Object", "Binary"} ->
           [ex EXCEPT !.es = [i \in DOMAIN @ |-> walk_expr(@[i], vs)]]
      [] ex.e = "Dot" -> [ex EXCEPT !.o = walk_expr(@, vs)]
      [] ex.e = "JsOp" ->
           [ex EXCEPT !.es = [i \in DOMAIN @ |-> walk_expr(@[i], vs)],
                      !.ts = [i \in DOMAIN @ |-> enter_typ(@[i], vs)]]
      [] ex.e = "Assign" -> [ex EXCEPT !.t = enter_typ(@, vs), !.v = walk_expr(@, vs)]
      [] ex.e = "Coercion" ->
           [ex EXCEPT !.src = enter_typ(@, vs), !.dst = enter_typ(@, vs),
                      !.of = walk_expr(@, vs)]
      [] OTHER -> ex)

RECURSIVE walk_stmt(_, _)
\* Stmt::walk with the SubtMetavarVisitor
walk_stmt(st, vs) ==
  CASE st.s = "Var" -> [st EXCEPT !.t = enter_typ(@, vs), !.init = walk_expr(@, vs)]
    [] st.s = "Expr" -> [st EXCEPT !.ex = walk_expr(@, vs)]
    [] OTHER -> [st EXCEPT !.ss = [i \in DOMAIN @ |-> walk_stmt(@[i], vs)]]

(***************************************************************************)
(* typeinf as a state machine: constraint generation, the solver, the      *)
(* substitution; then typeinf may be started again on its own result.      *)
(***************************************************************************)
MaxRuns == 2       \* how many times typeinf is run on a program

Ids == {"x"}
Lits == {"int", "str", "bool", "float", "undefined"}

\* the expressions of the programs: E0 has no identifier, E1 uses x
Plain == {JLit(l) : l \in Lits}
E0 ==
  Plain \cup {JArray(<<>>)} \cup {JArray(<<a>>) : a \in Plain}
        \cup {JArray(<<a, b>>) : a, b \in Plain}
        \cup {JObject(<<"p">>, <<a>>) : a \in Plain}
        \cup {JObject(<<"p", "q">>, <<a, b>>) : a, b \in Plain}
        \cup {JDot(a) : a \in {JLit("undefined"), JArray(<<>>)}}
        \cup {JsOp("+", <<a, b>>) : a, b \in {JLit("int"), JLit("str"), JLit("undefined")}}
E1 ==
  {JId("x")} \cup {JAssign("x", a) : a \in Plain}
             \cup {JsOp("+", <<JId("x"), a>>) : a \in {JLit("int"), JLit("str")}}
             \cup {JArray(<<JId("x")>>), JDot(JId("x"))}

\* the programs typeinf is run on: every identifier is declared
InfProgs ==
  {JBlock(<<JExpr(ex)>>) : ex \in E0}
    \cup {JBlock(<<JVar("x", init), JExpr(ex)>>) :
            init \in {JLit("int"), JLit("str"), JLit("bool"), JArray(<<>>)},
            ex \in E1}

\* typeinf: Typeinf { vars: Default::default(), .., env: Env::new() }
NewSolver ==
  [nv |-> 0, nw |-> 0, phi |-> <<>>, env |-> [x \in Ids |-> Ty("Missing")], panic |-> FALSE]

InfInit ==
  /\ EmitIdle /\ HeapIdle /\ AnfIdle /\ TpIdle
  /\ LaterIdle
  /\ inf_phase = "input"
  /\ janky \in InfProgs
  /\ before = janky
  /\ inf_runs = 0
  /\ solver = NewSolver
  /\ mapping = <<>>

\* state.cgen_stmt(stmt) has answered r
Generated(r) ==
  /\ inf_phase' = IF r.Z.panic THEN "panic" ELSE "cgen"
  /\ janky' = IF r.Z.panic THEN janky ELSE r.s
  /\ solver' = r.Z

\* typeinf is called (on a program, or on the result of the last run):
\* state.cgen_stmt(stmt)
CgenStmt ==
  /\ inf_phase \in {"input", "done"}
  /\ inf_runs < MaxRuns
  /\ Generated(cgen_stmt(NewSolver, janky))
  /\ before' = janky
  /\ inf_runs' = inf_runs + 1
  /\ UNCHANGED mapping
  /\ UNCHANGED nonInfVars

\* state.solver.check(), get_model() and solve_model
Solved(ms) ==
  IF ms = {} THEN inf_phase' = "panic" /\ UNCHANGED mapping
  ELSE \E m \in ms :
         /\ mapping' = m.v
         /\ inf_phase' = IF \E n \in DOMAIN m.v : z3_to_typ_panics(m.v[n])
                         THEN "panic" ELSE "solved"

SolverCheck ==
  /\ inf_phase = "cgen"
  /\ Solved(Optimal(Models(solver)))
  /\ UNCHANGED <<janky, before, inf_runs, solver>>
  /\ UNCHANGED nonInfVars

\* stmt.walk(&mut subst_metavar)
SubstMetavar ==
  /\ inf_phase = "solved"
  /\ janky' = walk_stmt(janky, mapping)
  /\ inf_phase' = "done"
  /\ UNCHANGED <<before, inf_runs, solver, mapping>>
  /\ UNCHANGED nonInfVars

InfNext == CgenStmt \/ SolverCheck \/ SubstMetavar

SpecInf == InfInit /\ [][InfNext]_vars

(***************************************************************************)
(* Properties of type inference.                                           *)
(***************************************************************************)
RECURSIVE ExprResolved(_)
\* no Metavar, no Missing and no Coercion::Meta in an expression
ExprResolved(ex) ==
  CASE ex.e = "Id" -> ex.t.k \notin {"Metavar", "Missing"}
    [] ex.e \in {"Array", "Object", "Binary"} ->
         \A i \in DOMAIN ex.es : ExprResolved(ex.es[i])
    [] ex.e = "Dot" -> ExprResolved(ex.o)
    [] ex.e = "JsOp" ->
         /\ \A i \in DOMAIN ex.es : ExprResolved(ex.es[i])
         /\ \A i \in DOMAIN ex.ts : ex.ts[i].k \notin {"Metavar", "Missing"}
    [] ex.e = "Assign" -> ex.t.k \notin {"Metavar", "Missing"} /\ ExprResolved(ex.v)
    [] ex.e = "Coercion" -> FALSE
    [] OTHER -> TRUE

RECURSIVE StmtResolved(_)
StmtResolved(st) ==
  CASE st.s = "Var" -> st.t.k \notin {"Metavar", "Missing"} /\ ExprResolved(st.init)
    [] st.s = "Expr" -> ExprResolved(st.ex)
    [] OTHER -> \A i \in DOMAIN st.ss : StmtResolved(st.ss[i])

\* C8: after typeinf has run on a program, the program contains no
\* Type::Metavar, no Type::Missing and no Coercion::Meta node at all.
C8_NoMetaAfterTypeinf == inf_phase = "done" => StmtResolved(janky)

\* C9: a second run of typeinf on the program a first run produced
\* terminates normally and leaves the program unchanged.
C9_TypeinfIdempotent ==
  (inf_runs = MaxRuns /\ inf_phase \in {"done", "panic"}) =>
    inf_phase = "done" /\ janky = before



(***************************************************************************)
(*               A-NORMALIZATION (notwasm/from_jankyscript.rs)             *)
(* The JankyScript handed to from_jankyscript uses the expression records  *)
(* of the type inference part and these further ones:                      *)
(*   Func [fn: params, body]   Call [fun, args]   PrimCall [name, args]    *)
(*   MethodCall [o, method, args]   Store [into, ex]                       *)
(*   Coercion [c, of] with c the kind of a J::Coercion                     *)
(*   Bracket [c, i] on an array   Object [keys, es]                        *)
(*   AssignDot [o, f, v] and AssignBracket [c, i, v]: an Assign whose      *)
(*   lvalue is LValue::Dot or LValue::Bracket (on an array)                *)
(* and the statements If [cond, s1, s2], Return [ex], Loop [body], Empty.  *)
(* The NotWasm it produces uses the records of the emitter part.           *)
(*                                                                         *)
(* A context C is a boxed closure; here it is the record of what the       *)
(* closure captured, with the place that built it in field f and the       *)
(* context it captured in field cxt.  call(cxt, state, v) runs its body.   *)
(***************************************************************************)
JFunc(params, body) == [e |-> "Func", fn |-> [params |-> params, body |-> body]]
JCall(fun, args) == [e |-> "Call", fun |-> fun, args |-> args]
JPrimCall(name, args) == [e |-> "PrimCall", name |-> name, args |-> args]
JMethodCall(o, method, args) ==
  [e |-> "MethodCall", o |-> o, method |-> method, args |-> args]
JStore(into, ex) == [e |-> "Store", into |-> into, ex |-> ex]
JCoerce(c, of) == [e |-> "Coercion", c |-> c, of |-> of]
JBracket(c, i) == [e |-> "Bracket", c |-> c, i |-> i]
JAssignDot(o, v) == [e |-> "AssignDot", o |-> o, f |-> "y", v |-> v]
JAssignBracket(c, i, v) == [e |-> "AssignBracket", c |-> c, i |-> i, v |-> v]
JTyped(x, t, init) == [s |-> "Var", x |-> x, t |-> t, init |-> init]
JIf(cond, s1, s2) == [s |-> "If", cond |-> cond, s1 |-> s1, s2 |-> s2]
JReturn(ex) == [s |-> "Return", ex |-> ex]
JLoop(body) == [s |-> "Loop", body |-> body]
JEmpty == [s |-> "Empty"]

\* notwasm/constructors.rs and the variants of notwasm/syntax.rs
ABinary(op, a1, a2) == [k |-> "Binary", op |-> op, a1 |-> a1, a2 |-> a2]
object_get_(obj, field) == [k |-> "ObjectGet", obj |-> obj, field |-> field]
to_any_(a) == [k |-> "ToAny", a |-> a]
from_any_(a, ty) == [k |-> "FromAny", a |-> a, ty |-> ty]
str_(name) == ALit("String")
prim_app_(name, args) == [k |-> "PrimApp", name |-> name, args |-> args]
ObjectSet(obj, field, val) ==
  [k |-> "ObjectSet", obj |-> obj, field |-> field, val |-> val]
ArraySet(arr, index, val) ==
  [k |-> "ArraySet", arr |-> arr, index |-> index, val |-> val]
ObjectEmpty == [k |-> "ObjectEmpty"]
atom_(a) == EAtom(a)
prim_call(name, args) == [k |-> "PrimCall", name |-> name, args |-> args]
ClosureCall(id, args) == [k |-> "ClosureCall", id |-> id, args |-> args]
AnyMethodCall(id, method, args) ==
  [k |-> "AnyMethodCall", id |-> id, method |-> method, args |-> args,
   typs |-> <<>>]
VarStmt(id, ty, named) == [k |-> "Var", id |-> id, ty |-> ty, e |-> named]
VarStmt_new(id, named) == VarStmt(id, "None", named)
AssignStmt(id, ex) == [k |-> "Assign", id |-> id, e |-> ex]
Expression(ex) == [k |-> "Expression", e |-> ex]
StoreStmt(id, ex) == [k |-> "Store", id |-> id, e |-> ex]
if_(a, s1, s2) == [k |-> "If", c |-> a, s1 |-> s1, s2 |-> s2]
loop_(body) == [k |-> "Loop", s |-> body]
ReturnStmt(a) == [k |-> "Return", a |-> a]
rope_to_block(rope) == [k |-> "Block", ss |-> rope]

\* J::Type::notwasm_typ on the types the inputs use
notwasm_typ(t) ==
  CASE t.k = "Int" -> "I32"
    [] t.k = "Float" -> "F64"
    [] t.k = "Bool" -> "Bool"
    [] t.k = "String" -> "String"
    [] OTHER -> "Any"

compile_lit(l) ==
  CASE l = "str" -> "String"
    [] l = "bool" -> "Bool"
    [] l = "undefined" -> "Undefined"
    [] l = "int" -> "I32"
    [] l = "float" -> "F64"

\* struct S, and with it what the running closures hold: ids is the stack of
\* the `ids` vectors of the compile_exprs calls in progress, panic records
\* that a panic!/todo! was reached, after which nothing more is compiled
NewS == [next |-> 0, functions |-> <<>>, ids |-> <<>>, panic |-> FALSE]

\* S::fresh returns fresh(state) and leaves the state named(state)
fresh(state) == "anf" \o ToString(state.next)
named(state) == [state EXCEPT !.next = @ + 1]

\* S::new_function: HashMap::insert replaces an entry of the same name
new_function(state, name, f) ==
  [state EXCEPT !.functions =
     Append(SelectSeq(@, LAMBDA g : g.name # name), [name |-> name, fn |-> f])]

\* a Rope<Stmt> together with the state the call left
Out(state, rope) == [S |-> state, rope |-> rope]
\* Rope::append of what a later call returned
Then(rope, r) == [S |-> r.S, rope |-> rope \o r.rope]

\* which constructor of C built the context
IdShaped == {"compile_exprs", "Call", "MethodCall", "Store"}
ExprShaped == {"Store2", "Stmt::Var"}
shape(cxt) ==
  IF cxt.f \in IdShaped THEN "Id"
  ELSE IF cxt.f \in ExprShaped THEN "Expr" ELSE "Atom"

RECURSIVE compile_expr(_, _, _)
RECURSIVE compile_stmt(_, _)
RECURSIVE call(_, _, _)

\* recv_a with the C::Id arm handing over a fresh name that no Var binds
recv_a_unnamed(cxt, state, a) ==
  CASE shape(cxt) = "Atom" -> call(cxt, state, a)
    [] shape(cxt) = "Id" ->
         IF a.k = "Id" THEN call(cxt, state, a.id)
         ELSE call(cxt, named(state), fresh(state))
    [] shape(cxt) = "Expr" -> call(cxt, state, EAtom(a))

recv_a(cxt, state, a) ==
  CASE shape(cxt) = "Atom" -> call(cxt, state, a)
    [] shape(cxt) = "Id" ->
         IF a.k = "Id" THEN call(cxt, state, a.id)
         ELSE Then(<<VarStmt_new(fresh(state), EAtom(a))>>,
                   call(cxt, named(state), fresh(state)))
    [] shape(cxt) = "Expr" -> call(cxt, state, EAtom(a))

\* recv_e naming the expression whatever the context expects
recv_e_always_named(cxt, state, ex) ==
  Then(<<VarStmt_new(fresh(state), ex)>>,
       call(cxt, named(state),
            IF shape(cxt) = "Id" THEN fresh(state) ELSE AId(fresh(state))))

recv_e(cxt, state, ex) ==
  CASE shape(cxt) = "Id" ->
         Then(<<VarStmt_new(fresh(state), ex)>>,
              call(cxt, named(state), fresh(state)))
    [] shape(cxt) = "Atom" ->
         Then(<<VarStmt_new(fresh(state), ex)>>,
              call(cxt, named(state), AId(fresh(state))))
    [] shape(cxt) = "Expr" -> call(cxt, state, ex)

\* the loop of compile_exprs: every expression is compiled under a C::id
\* that pushes the name it receives onto ids
RECURSIVE compile_each(_, _)
each_rest(r, exprs) == Then(r.rope, compile_each(r.S, exprs))
compile_each(state, exprs) ==
  IF exprs = <<>> THEN Out(state, <<>>)
  ELSE each_rest(compile_expr(state, Head(exprs), [f |-> "compile_exprs"]),
                 Tail(exprs))

exprs_named(r, cxt) ==
  Then(r.rope, call(cxt, [r.S EXCEPT !.ids = SubSeq(@, 1, Len(@) - 1)],
                    r.S.ids[Len(r.S.ids)]))

compile_exprs(state, exprs, cxt) ==
  exprs_named(compile_each([state EXCEPT !.ids = Append(@, <<>>)], exprs), cxt)

coercion_panics(c) == c \in {"Fun", "Meta"}
coercion_to_expr(c, a) ==
  CASE c = "Tag" -> to_any_(a)
    [] c = "Untag" -> from_any_(a, "I32")
    [] c = "Id" -> a

RECURSIVE compile_stmts(_, _)
stmts_rest(r, ss) == Then(r.rope, compile_stmts(r.S, ss))
compile_stmts(state, ss) ==
  IF ss = <<>> THEN Out(state, <<>>)
  ELSE stmts_rest(compile_stmt(state, Head(ss)), Tail(ss))

block_of(r) == Out(r.S, <<rope_to_block(r.rope)>>)
loop_of(r) == Out(r.S, <<loop_(rope_to_block(r.rope))>>)

\* compile_stmt_block of the two branches, then branch first
if_else(r2, block1, a) == Out(r2.S, <<if_(a, block1, rope_to_block(r2.rope))>>)
if_then(r1, s2, a) == if_else(compile_stmt(r1.S, s2), rope_to_block(r1.rope), a)

function_of(r, f) ==
  [S |-> r.S, fn |-> [params |-> <<"env">> \o f.params,
                      body |-> rope_to_block(r.rope)]]
compile_function(state, f) == function_of(compile_stmt(state, f.body), f)

func_named(r, name, cxt) ==
  recv_a(cxt, new_function(r.S, name, r.fn), AId(name))

array_built(cxt, state, array_name, member_ids) ==
  Then(<<VarStmt_new(array_name, prim_call("array_new", <<>>))>>
         \o [i \in 1..Len(member_ids) |->
               Expression(prim_call("array_push", <<array_name, member_ids[i]>>))],
       recv_a(cxt, state, AId(array_name)))

object_built(cxt, state, obj_name, keys, ids) ==
  Then(<<VarStmt_new(obj_name, ObjectEmpty)>>
         \o [i \in 1..Min(Len(keys), Len(ids)) |->
               Expression(ObjectSet(AId(obj_name), str_(keys[i]), AId(ids[i])))],
       recv_a(cxt, state, AId(obj_name)))

\* the bodies of the closures that compile_expr, compile_exprs and
\* compile_stmt box into a C, and of those handed to compile_exprs
call(cxt, state, v) ==
  IF state.panic THEN Out(state, <<>>) ELSE
  CASE cxt.f = "compile_exprs" ->
         Out([state EXCEPT !.ids = [@ EXCEPT ![Len(state.ids)] = Append(@, v)]],
             <<>>)
    [] cxt.f = "Array" -> array_built(cxt.cxt, named(state), fresh(state), v)
    [] cxt.f = "Object" ->
         object_built(cxt.cxt, named(state), fresh(state), cxt.keys, v)
    [] cxt.f = "Dot" ->
         recv_a(cxt.cxt, state, object_get_(v, str_(cxt.field)))
    [] cxt.f = "Bracket" ->
         compile_expr(state, cxt.i, [f |-> "Bracket2", c |-> v, cxt |-> cxt.cxt])
    [] cxt.f = "Bracket2" ->
         recv_a(cxt.cxt, state, prim_app_("array_index", <<cxt.c, v>>))
    [] cxt.f = "AssignDot" ->
         compile_expr(state, cxt.o,
                      [f |-> "AssignDot2", field |-> cxt.field, a |-> v,
                       cxt |-> cxt.cxt])
    [] cxt.f = "AssignDot2" ->
         recv_e(cxt.cxt, state, ObjectSet(v, str_(cxt.field), cxt.a))
    [] cxt.f = "AssignBracket" ->
         compile_expr(state, cxt.c,
                      [f |-> "AssignBracket2", i |-> cxt.i, a |-> v,
                       cxt |-> cxt.cxt])
    [] cxt.f = "AssignBracket2" ->
         compile_expr(state, cxt.i,
                      [f |-> "AssignBracket3", cont |-> v, a |-> cxt.a,
                       cxt |-> cxt.cxt])
    [] cxt.f = "AssignBracket3" ->
         recv_e(cxt.cxt, state, ArraySet(cxt.cont, v, cxt.a))
    [] cxt.f = "Coercion" ->
         IF coercion_panics(cxt.c)
         THEN Out([state EXCEPT !.panic = TRUE], <<>>)
         ELSE recv_a(cxt.cxt, state, coercion_to_expr(cxt.c, v))
    [] cxt.f = "Binary" ->
         compile_expr(state, cxt.e2,
                      [f |-> "Binary2", op |-> cxt.op, a1 |-> v, cxt |-> cxt.cxt])
    [] cxt.f = "Binary2" -> recv_a(cxt.cxt, state, ABinary(cxt.op, cxt.a1, v))
    [] cxt.f = "Assign" ->
         Then(<<AssignStmt(cxt.id, atom_(v))>>, recv_a(cxt.cxt, state, v))
    [] cxt.f = "PrimCall" -> recv_e(cxt.cxt, state, prim_call(cxt.name, v))
    [] cxt.f = "Call" ->
         compile_exprs(state, cxt.args,
                       [f |-> "Call2", fun_id |-> v, cxt |-> cxt.cxt])
    [] cxt.f = "Call2" -> recv_e(cxt.cxt, state, ClosureCall(cxt.fun_id, v))
    [] cxt.f = "MethodCall" ->
         compile_exprs(state, cxt.args,
                       [f |-> "MethodCall2", obj_id |-> v, method |-> cxt.method,
                        cxt |-> cxt.cxt])
    [] cxt.f = "MethodCall2" ->
         recv_e(cxt.cxt, state, AnyMethodCall(cxt.obj_id, cxt.method, v))
    [] cxt.f = "Store" ->
         compile_expr(state, cxt.ex, [f |-> "Store2", into |-> v])
    [] cxt.f = "Store2" -> Out(state, <<StoreStmt(cxt.into, v)>>)
    [] cxt.f = "Stmt::Var" -> Out(state, <<VarStmt(cxt.id, cxt.ty, v)>>)
    [] cxt.f = "Stmt::Expr" -> Out(state, <<>>)
    [] cxt.f = "Stmt::If" -> if_then(compile_stmt(state, cxt.s1), cxt.s2, v)
    [] cxt.f = "Stmt::Return" -> Out(state, <<ReturnStmt(v)>>)

compile_expr(state, expr, cxt) ==
  IF state.panic THEN Out(state, <<>>) ELSE
  CASE expr.e = "JsOp" -> Out([state EXCEPT !.panic = TRUE], <<>>)
    [] expr.e = "Lit" -> recv_a(cxt, state, ALit(compile_lit(expr.l)))
    [] expr.e = "Array" ->
         compile_exprs(state, expr.es, [f |-> "Array", cxt |-> cxt])
    [] expr.e = "Dot" ->
         compile_expr(state, expr.o,
                      [f |-> "Dot", field |-> expr.f, cxt |-> cxt])
    [] expr.e = "Object" ->
         compile_exprs(state, expr.es,
                       [f |-> "Object", keys |-> expr.keys, cxt |-> cxt])
    [] expr.e = "Bracket" ->
         compile_expr(state, expr.c,
                      [f |-> "Bracket", i |-> expr.i, cxt |-> cxt])
    [] expr.e = "AssignDot" ->
         compile_expr(state, expr.v,
                      [f |-> "AssignDot", o |-> expr.o, field |-> expr.f,
                       cxt |-> cxt])
    [] expr.e = "AssignBracket" ->
         compile_expr(state, expr.v,
                      [f |-> "AssignBracket", c |-> expr.c, i |-> expr.i,
                       cxt |-> cxt])
    [] expr.e = "Coercion" ->
         compile_expr(state, expr.of,
                      [f |-> "Coercion", c |-> expr.c, cxt |-> cxt])
    [] expr.e = "Id" -> recv_a(cxt, state, AId(expr.x))
    [] expr.e = "Func" ->
         func_named(compile_function(named(state), expr.fn), fresh(state), cxt)
    [] expr.e = "Binary" ->
         compile_expr(state, expr.es[1],
                      [f |-> "Binary", op |-> expr.op, e2 |-> expr.es[2],
                       cxt |-> cxt])
    [] expr.e = "Assign" ->
         compile_expr(state, expr.v,
                      [f |-> "Assign", id |-> expr.x, cxt |-> cxt])
    [] expr.e = "PrimCall" ->
         compile_exprs(state, expr.args,
                       [f |-> "PrimCall", name |-> expr.name, cxt |-> cxt])
    [] expr.e = "Call" ->
         compile_expr(state, expr.fun,
                      [f |-> "Call", args |-> expr.args, cxt |-> cxt])
    [] expr.e = "MethodCall" ->
         compile_expr(state, expr.o,
                      [f |-> "MethodCall", method |-> expr.method,
                       args |-> expr.args, cxt |-> cxt])
    [] expr.e = "Store" ->
         compile_expr(state, expr.into, [f |-> "Store", ex |-> expr.ex])

compile_stmt(state, stmt) ==
  IF state.panic THEN Out(state, <<>>) ELSE
  CASE stmt.s = "Var" ->
         compile_expr(state, stmt.init,
                      [f |-> "Stmt::Var", id |-> stmt.x,
                       ty |-> notwasm_typ(stmt.t)])
    [] stmt.s = "Block" -> block_of(compile_stmts(state, stmt.ss))
    [] stmt.s = "Empty" -> Out(state, << [k |-> "Empty"] >>)
    [] stmt.s = "Expr" -> compile_expr(state, stmt.ex, [f |-> "Stmt::Expr"])
    [] stmt.s = "If" ->
         compile_expr(state, stmt.cond,
                      [f |-> "Stmt::If", s1 |-> stmt.s1, s2 |-> stmt.s2])
    [] stmt.s = "Loop" -> loop_of(compile_stmt(state, stmt.body))
    [] stmt.s = "Return" -> compile_expr(state, stmt.ex, [f |-> "Stmt::Return"])

main_added(r) ==
  [functions |->
     new_function(r.S, "main",
                  [params |-> <<>>, body |-> rope_to_block(r.rope)]).functions,
   panic |-> r.S.panic]

\* from_jankyscript; panic tells that it did not return
from_jankyscript(stmt) == main_added(compile_stmt(NewS, stmt))

(***************************************************************************)
(* The programs handed to from_jankyscript: one statement in a block, its  *)
(* expression an operation over at most MaxArgs operands, each operand a   *)
(* literal, an identifier, a function literal or a small operation.        *)
(***************************************************************************)
MaxArgs == 2

SourceIds == {"f", "x", "r", "a", "y"}

AnfFunc ==
  JFunc(<<"a">>, JReturn(JPrimCall("p", <<JId("a"), JLit("int")>>)))

AnfOperands ==
  { JLit("int"), JId("x"), AnfFunc,
    JBinary("+", <<JId("x"), JLit("int")>>),
    JAssign("x", JLit("int")),
    JCall(JId("f"), <<JLit("int")>>),
    JStore(JId("r"), JLit("int")) }

AnfOperandLists == SeqsUpTo(AnfOperands, MaxArgs)

AnfExprs ==
  AnfOperands
    \cup { JCall(fun, args) : fun \in {JId("f"), AnfFunc},
                              args \in AnfOperandLists }
    \cup { JPrimCall("p", args) : args \in AnfOperandLists }
    \cup { JArray(args) : args \in AnfOperandLists }
    \cup { JMethodCall(o, "m", args) : o \in {JId("x"), JLit("str")},
                                       args \in AnfOperandLists }
    \cup { JBinary("+", <<e1, e2>>) : e1 \in AnfOperands, e2 \in AnfOperands }
    \cup { JStore(into, ex) : into \in AnfOperands, ex \in AnfOperands }
    \cup { JDot(o) : o \in AnfOperands }
    \cup { JCoerce(c, of) : c \in {"Tag", "Untag", "Id", "Meta"},
                            of \in AnfOperands }
    \cup { JsOp("+", <<JLit("int"), JLit("int")>>) }

\* operations whose operands are calls of distinct primitives, so that the
\* statements of each operand can be told apart in the output
Marked(n) == JPrimCall(<<"p1", "p2", "p3">>[n], <<>>)

AnfOrderExprs ==
  { JBinary("+", <<Marked(1), Marked(2)>>),
    JBracket(Marked(1), Marked(2)),
    JCall(Marked(1), <<Marked(2), Marked(3)>>),
    JMethodCall(Marked(1), "m", <<Marked(2), Marked(3)>>),
    JPrimCall("p", <<Marked(1), Marked(2)>>),
    JArray(<<Marked(1), Marked(2)>>),
    JObject(<<"k1", "k2">>, <<Marked(1), Marked(2)>>),
    JAssignDot(Marked(1), Marked(2)),
    JAssignBracket(Marked(1), Marked(2), Marked(3)),
    JStore(Marked(1), Marked(2)),
    JBinary("+", <<JStore(Marked(1), Marked(2)), Marked(3)>>) }

AnfStmts ==
  UNION { { JExpr(ex), JTyped("y", Ty("Any"), ex), JReturn(ex), JLoop(JExpr(ex)),
            JIf(ex, JBlock(<<JExpr(JCall(JId("f"), <<JLit("int")>>))>>), JEmpty) }
          : ex \in AnfExprs \cup AnfOrderExprs }

AnfProgs == { JBlock(<<stmt>>) : stmt \in AnfStmts }

AnfInit ==
  /\ EmitIdle /\ HeapIdle /\ InfIdle /\ TpIdle
  /\ LaterIdle
  /\ anf_phase = "input"
  /\ janky_program \in AnfProgs
  /\ program = NoProgram

\* what from_jankyscript returned, or that it panicked
Lowered(r) ==
  /\ anf_phase' = IF r.panic THEN "panic" ELSE "done"
  /\ program' = IF r.panic THEN NoProgram ELSE [functions |-> r.functions]

FromJankyscript ==
  /\ anf_phase = "input"
  /\ Lowered(from_jankyscript(janky_program))
  /\ UNCHANGED janky_program
  /\ UNCHANGED nonAnfVars

AnfNext == FromJankyscript

SpecAnf == AnfInit /\ [][AnfNext]_vars

\* an Atom all of whose sub-parts are atoms
RECURSIVE IsAtom(_)
IsAtom(a) ==
  CASE a.k \in {"Lit", "Id"} -> TRUE
    [] a.k = "Binary" -> IsAtom(a.a1) /\ IsAtom(a.a2)
    [] a.k \in {"ToAny", "FromAny"} -> IsAtom(a.a)
    [] a.k = "ObjectGet" -> IsAtom(a.obj) /\ IsAtom(a.field)
    [] a.k = "PrimApp" -> \A i \in DOMAIN a.args : IsAtom(a.args[i])
    [] OTHER -> FALSE

\* the arguments of a call expression
ArgsOf(ex) ==
  IF ex.k \in {"Call", "ClosureCall", "PrimCall", "AnyMethodCall"}
  THEN Range(ex.args) ELSE {}

\* the identifiers bound by the Var statements of ss before position i
Bound(ss, i) == { ss[j].id : j \in { j \in 1..(i - 1) : ss[j].k = "Var" } }

\* every identifier a Var statement binds somewhere in ss
RECURSIVE VarIds(_)
VarIds(ss) ==
  UNION { CASE ss[i].k = "Var" -> {ss[i].id}
            [] ss[i].k = "If" -> VarIds(ss[i].s1.ss) \cup VarIds(ss[i].s2.ss)
            [] ss[i].k = "Block" -> VarIds(ss[i].ss)
            [] ss[i].k = "Loop" -> VarIds(ss[i].s.ss)
            [] OTHER -> {}
          : i \in DOMAIN ss }

\* the names new_function gave to lifted function literals
Lifted(prog) ==
  { prog.functions[i].name : i \in DOMAIN prog.functions } \ {"main"}

\* the identifiers of prog
Idents(prog) ==
  SourceIds \cup {"env"} \cup Lifted(prog)
    \cup UNION { VarIds(prog.functions[i].fn.body.ss) : i \in DOMAIN prog.functions }

\* the statement sequence ss is in A-normal form: call arguments are source
\* identifiers, names in also, or temporaries bound earlier in ss; Store
\* targets are identifiers; If conditions and Return operands are atoms
RECURSIVE ANormal(_, _, _)
ANormal(ss, also, idents) ==
  \A i \in DOMAIN ss :
    CASE ss[i].k \in {"Var", "Expression", "Assign"} ->
           ArgsOf(ss[i].e) \subseteq SourceIds \cup also \cup Bound(ss, i)
      [] ss[i].k = "Store" ->
           /\ ss[i].id \in idents
           /\ ArgsOf(ss[i].e) \subseteq SourceIds \cup also \cup Bound(ss, i)
      [] ss[i].k = "If" ->
           /\ IsAtom(ss[i].c)
           /\ ANormal(ss[i].s1.ss, also, idents)
           /\ ANormal(ss[i].s2.ss, also, idents)
      [] ss[i].k = "Return" -> IsAtom(ss[i].a)
      [] ss[i].k = "Block" -> ANormal(ss[i].ss, also, idents)
      [] ss[i].k = "Loop" -> ANormal(ss[i].s.ss, also, idents)
      [] OTHER -> TRUE

\* C10, as stated: in the NotWasm that from_jankyscript returns every call
\* argument is an identifier, every If condition and Return operand an
\* atom, every Store target an identifier, and every identifier used as a
\* call argument is a source identifier or a temporary bound by a Var
\* statement earlier in the same statement sequence.
C10_ArgsSourceOrVarBound ==
  anf_phase = "done" =>
    \A i \in DOMAIN program.functions :
      ANormal(program.functions[i].fn.body.ss, {}, Idents(program))

\* C10, amended: as above, except that a call argument may also be the
\* fresh name under which a function literal was entered in the program's
\* functions, which no Var statement binds.
C10_ArgsSourceVarBoundOrLifted ==
  anf_phase = "done" =>
    \A i \in DOMAIN program.functions :
      ANormal(program.functions[i].fn.body.ss, Lifted(program), Idents(program))

\* f(function (a) {...}, 1) was lowered: the call's arguments are the name
\* of the lifted function and a temporary bound just before the call
C10_Witness ==
  /\ anf_phase = "done"
  /\ janky_program = JBlock(<<JExpr(JCall(JId("f"), <<AnfFunc, JLit("int")>>))>>)
  /\ LET ss == program.functions[Len(program.functions)].fn.body.ss[1].ss
     IN \E i \in DOMAIN ss :
          /\ ss[i].k = "Var" /\ ss[i].e.k = "ClosureCall"
          /\ Len(ss[i].e.args) = 2
          /\ ss[i].e.args[1] \in Lifted(program)
          /\ ss[i].e.args[2] \in Bound(ss, i) \ Lifted(program)

\* the primitives an expression calls, in source order left to right; a
\* function literal's body belongs to the lifted function
RECURSIVE SrcCalls(_)
RECURSIVE SrcCallsOf(_)
SrcCalls(ex) ==
  CASE ex.e = "PrimCall" -> SrcCallsOf(ex.args) \o <<ex.name>>
    [] ex.e \in {"Array", "Object", "Binary"} -> SrcCallsOf(ex.es)
    [] ex.e = "Dot" -> SrcCalls(ex.o)
    [] ex.e = "Coercion" -> SrcCalls(ex.of)
    [] ex.e = "Bracket" -> SrcCalls(ex.c) \o SrcCalls(ex.i)
    [] ex.e = "Assign" -> SrcCalls(ex.v)
    [] ex.e = "AssignDot" -> SrcCalls(ex.o) \o SrcCalls(ex.v)
    [] ex.e = "AssignBracket" ->
         SrcCalls(ex.c) \o SrcCalls(ex.i) \o SrcCalls(ex.v)
    [] ex.e = "Call" -> SrcCalls(ex.fun) \o SrcCallsOf(ex.args)
    [] ex.e = "MethodCall" -> SrcCalls(ex.o) \o SrcCallsOf(ex.args)
    [] ex.e = "Store" -> SrcCalls(ex.into) \o SrcCalls(ex.ex)
    [] OTHER -> <<>>
SrcCallsOf(es) ==
  IF es = <<>> THEN <<>> ELSE SrcCalls(Head(es)) \o SrcCallsOf(Tail(es))

RECURSIVE StmtCalls(_)
RECURSIVE StmtCallsOf(_)
StmtCalls(stmt) ==
  CASE stmt.s = "Var" -> SrcCalls(stmt.init)
    [] stmt.s \in {"Expr", "Return"} -> SrcCalls(stmt.ex)
    [] stmt.s = "If" ->
         SrcCalls(stmt.cond) \o StmtCalls(stmt.s1) \o StmtCalls(stmt.s2)
    [] stmt.s = "Loop" -> StmtCalls(stmt.body)
    [] stmt.s = "Block" -> StmtCallsOf(stmt.ss)
    [] OTHER -> <<>>
StmtCallsOf(ss) ==
  IF ss = <<>> THEN <<>> ELSE StmtCalls(Head(ss)) \o StmtCallsOf(Tail(ss))

\* the primitives the statements of ss call, in the order of the statements;
\* array_new and array_push are the lowering's own
RECURSIVE OutCalls(_)
OutCalls(ss) ==
  IF ss = <<>> THEN <<>>
  ELSE LET st == Head(ss)
       IN (CASE st.k \in {"Var", "Expression", "Assign", "Store"} ->
                  IF st.e.k = "PrimCall"
                       /\ st.e.name \notin {"array_new", "array_push"}
                  THEN <<st.e.name>> ELSE <<>>
             [] st.k = "If" -> OutCalls(st.s1.ss) \o OutCalls(st.s2.ss)
             [] st.k = "Block" -> OutCalls(st.ss)
             [] st.k = "Loop" -> OutCalls(st.s.ss)
             [] OTHER -> <<>>) \o OutCalls(Tail(ss))

\* a is b with some elements left out
RECURSIVE IsSubseq(_, _)
IsSubseq(a, b) ==
  \/ a = <<>>
  \/ /\ b # <<>>
     /\ IF Head(a) = Head(b) THEN IsSubseq(Tail(a), Tail(b))
        ELSE IsSubseq(a, Tail(b))

\* the body of main in the program from_jankyscript returned
MainBody == program.functions[Len(program.functions)].fn.body.ss

\* C11: the statements that from_jankyscript emits for the subexpressions of
\* an expression appear in source order, left to right; for `c.f = e` and
\* `c[i] = e` the statements of c (and i) come before those of e.
C11_SubexpressionsInSourceOrder ==
  anf_phase = "done" => IsSubseq(OutCalls(MainBody), StmtCalls(janky_program))

(***************************************************************************)
(*          THE MODULE AS A WHOLE (translation.rs translate_parity)        *)
(* A program is [functions, globals, rts_fn_imports]: the names of its     *)
(* functions in the iteration order of program.functions, its globals as   *)
(* records [ty, atom] (atom: the global has an initialiser) and the names  *)
(* of the runtime functions it imports besides get_rt_bindings().  The     *)
(* bodies of the program's functions are the emitter part's matter; here   *)
(* function indices are numbers, as in the module built.                   *)
(***************************************************************************)
\* the runtime globals translate_parity imports
rt_globals == <<"__JNKS_STRINGS">>
rt_globals_len == Len(rt_globals)

\* get_rt_bindings(): the runtime functions the generated main may look up
RtBindings ==
  <<"init", "gc_enter_fn", "gc_exit_fn", "set_in_current_shadow_frame_slot",
    "set_any_in_current_shadow_frame_slot">>

\* the 0-based position of name in names, -1 when it is not there
IndexOf(names, name) ==
  IF \E i \in DOMAIN names : names[i] = name
  THEN (CHOOSE i \in DOMAIN names : names[i] = name
                 /\ \A j \in 1..(i - 1) : names[j] # name) - 1
  ELSE -1

\* rt_indexes: the imports, get_rt_bindings() chained with rts_fn_imports
rt_indexes_of(prog) == RtBindings \o prog.rts_fn_imports

\* get_set_in_globals_frame: the function's index, -1 for its panic
get_set_in_globals_frame(rt_indexes, ty) ==
  IndexOf(rt_indexes,
          CASE ty = "Closure" -> "set_closure_in_globals_frame"
            [] ty = "Any" -> "set_any_in_globals_frame"
            [] OTHER -> "set_in_globals_frame")

\* the loop of insert_generated_main over globals.values().enumerate()
RECURSIVE publish_globals(_, _, _, _)
publish_globals(opts, globals, rt_indexes, index) ==
  IF index >= Len(globals) THEN <<>>
  ELSE (IF ~opts.disable_gc /\ is_gc_root(globals[index + 1].ty)
             /\ globals[index + 1].atom
        THEN <<InsN("GetGlobal", rt_globals_len + index),
               InsN("I32Const", rt_globals_len + index),
               InsN("Call", get_set_in_globals_frame(rt_indexes,
                                                     globals[index + 1].ty))>>
        ELSE <<>>) \o publish_globals(opts, globals, rt_indexes, index + 1)

\* insert_generated_main with main called before jnks_init
insert_generated_main_swapped(opts, globals, global_env, rt_indexes) ==
  <<InsN("Call", IndexOf(rt_indexes, "init"))>>
    \o (IF ~opts.disable_gc
        THEN <<InsN("I32Const", rt_globals_len + Len(globals)),
               InsN("Call", IndexOf(rt_indexes, "gc_enter_fn"))>>
        ELSE <<>>)
    \o publish_globals(opts, globals, rt_indexes, 0)
    \o <<InsN("Call", IndexOf(global_env, "main") + Len(rt_indexes)),
         InsN("Call", IndexOf(global_env, "jnks_init") + Len(rt_indexes))>>
    \o (IF ~opts.disable_gc
        THEN <<InsN("Call", IndexOf(rt_indexes, "gc_exit_fn"))>> ELSE <<>>)
    \o <<Ins("End")>>

\* insert_generated_main: the instructions of the function it pushes
insert_generated_main(opts, globals, global_env, rt_indexes) ==
  <<InsN("Call", IndexOf(rt_indexes, "init"))>>
    \o (IF ~opts.disable_gc
        THEN <<InsN("I32Const", rt_globals_len + Len(globals)),
               InsN("Call", IndexOf(rt_indexes, "gc_enter_fn"))>>
        ELSE <<>>)
    \o publish_globals(opts, globals, rt_indexes, 0)
    \o <<InsN("Call", IndexOf(global_env, "jnks_init") + Len(rt_indexes)),
         InsN("Call", IndexOf(global_env, "main") + Len(rt_indexes))>>
    \o (IF ~opts.disable_gc
        THEN <<InsN("Call", IndexOf(rt_indexes, "gc_exit_fn"))>> ELSE <<>>)
    \o <<Ins("End")>>

\* insert_generated_main panics: a function it looks up is not there
generated_main_panics(generated, global_env, rt_indexes) ==
  \/ \E i \in DOMAIN generated : generated[i].op = "Call" /\ generated[i].n < 0
  \/ IndexOf(global_env, "jnks_init") < 0
  \/ IndexOf(global_env, "main") < 0

\* the module translate_parity builds around the generated main
module_of(prog, generated, rt_indexes) ==
  [imports |-> rt_indexes,
   functions |-> [i \in DOMAIN prog.functions |->
                    [name |-> prog.functions[i], insts |-> <<>>]]
                 \o << [name |-> "", insts |-> generated] >>,
   exports |-> << [field |-> "main",
                   func |-> Len(rt_indexes) + Len(prog.functions)] >>,
   panic |-> generated_main_panics(generated, prog.functions, rt_indexes)]

translate_parity(opts, prog) ==
  module_of(prog,
            insert_generated_main(opts, prog.globals, prog.functions,
                                  rt_indexes_of(prog)),
            rt_indexes_of(prog))

MaxGlobals == 2

GlobalsFrameFns ==
  <<"set_in_globals_frame", "set_any_in_globals_frame">>

TpGlobals ==
  SeqsUpTo([ty : {"I32", "Any", "DynObject"}, atom : BOOLEAN], MaxGlobals)

\* runtime.notwasm, merged in by compile, defines jnks_init; the last
\* program has no main
TpPrograms ==
  [functions : { <<"jnks_init", "main">>, <<"main", "jnks_init">>,
                 <<"f", "main", "jnks_init">>, <<"jnks_init">> },
   globals : TpGlobals,
   rts_fn_imports : { <<>>, GlobalsFrameFns }]

TpInit ==
  /\ EmitIdle /\ HeapIdle /\ InfIdle /\ AnfIdle
  /\ LaterIdle
  /\ tp_phase = "input"
  /\ tp_opts \in [disable_gc : BOOLEAN]
  /\ tp_program \in TpPrograms
  /\ tp_module = NoModule

\* what translate_parity returned, or that it panicked
Translated(m) ==
  /\ tp_phase' = IF m.panic THEN "panic" ELSE "done"
  /\ tp_module' = IF m.panic THEN NoModule
                  ELSE [imports |-> m.imports, functions |-> m.functions,
                        exports |-> m.exports]

TranslateParity ==
  /\ tp_phase = "input"
  /\ Translated(translate_parity(tp_opts, tp_program))
  /\ UNCHANGED <<tp_opts, tp_program>>
  /\ UNCHANGED nonTpVars

TpNext == TranslateParity

SpecTp == TpInit /\ [][TpNext]_vars

\* the function of the module that has index n: its name if it is imported
\* or one of the program's, "" if it is the generated main
FuncAt(m, n) ==
  IF n < Len(m.imports) THEN m.imports[n + 1]
  ELSE m.functions[n - Len(m.imports) + 1].name

\* an instruction by what it does: a call by the name of the callee
Does(m, i) == IF i.op = "Call" THEN FuncAt(m, i.n) ELSE i.op

\* n publications of a global: get it, its slot, set_.._in_globals_frame
RECURSIVE Publications(_, _)
Publications(acts, n) ==
  IF n = 0 THEN acts = <<>>
  ELSE /\ Len(acts) >= 3
       /\ acts[1] = "GetGlobal" /\ acts[2] = "I32Const"
       /\ acts[3] \in Range(GlobalsFrameFns) \cup {"set_closure_in_globals_frame"}
       /\ Publications(SubSeq(acts, 4, Len(acts)), n - 1)

\* the globals that are initialised GC roots
RootGlobals(prog) ==
  { i \in DOMAIN prog.globals :
      is_gc_root(prog.globals[i].ty) /\ prog.globals[i].atom }

GeneratedMain == tp_module.functions[tp_module.exports[1].func
                                       - Len(tp_module.imports) + 1]

\* C12: the module exports exactly one function, named main, whose body
\* does, in this order: call init; enter the globals' shadow frame
\* (gc_enter_fn with the number of globals); call jnks_init; call the
\* program's main; exit the shadow frame (gc_exit_fn).  Nothing else is in
\* between but the publication of the initialised GC-root globals, and the
\* enter/exit pair is there exactly when GC is enabled.
C12_GeneratedMain ==
  tp_phase = "done" =>
    /\ Len(tp_module.exports) = 1
    /\ tp_module.exports[1].field = "main"
    /\ GeneratedMain.name = ""
    /\ LET body == GeneratedMain.insts
           acts == [i \in DOMAIN body |-> Does(tp_module, body[i])]
           gcOn == ~tp_opts.disable_gc
           np == IF gcOn THEN Cardinality(RootGlobals(tp_program)) ELSE 0
           pre == IF gcOn THEN <<"init", "I32Const", "gc_enter_fn">> ELSE <<"init">>
           post == IF gcOn THEN <<"jnks_init", "main", "gc_exit_fn", "End">>
                   ELSE <<"jnks_init", "main", "End">>
       IN /\ Len(acts) = Len(pre) + 3 * np + Len(post)
          /\ SubSeq(acts, 1, Len(pre)) = pre
          /\ Publications(SubSeq(acts, Len(pre) + 1, Len(pre) + 3 * np), np)
          /\ SubSeq(acts, Len(pre) + 3 * np + 1, Len(acts)) = post
          /\ gcOn => body[2].n = rt_globals_len + Len(tp_program.globals)

\* a module was built with GC enabled for a program with two initialised
\* GC-root globals, both published in the generated main
C12_Witness ==
  /\ tp_phase = "done" /\ ~tp_opts.disable_gc
  /\ Cardinality(RootGlobals(tp_program)) = 2
  /\ Len(GeneratedMain.insts) = 13

(***************************************************************************)
(*              THE LOWIR TYPE CHECKER AND notwasm::compile                *)
(***************************************************************************)

NewRef(a, ty) == [k |-> "NewRef", a |-> a, ty |-> ty]
EmptyStmt == [k |-> "Empty"]
ref_ty_(ty) == "Ref(" \o ty \o ")"

GroundTypes == {"I32", "F64", "Bool", "String", "Array", "DynObject", "Any"}

\* Lit::notwasm_typ
lit_typ(l) ==
  CASE l = "I32" -> "I32"
    [] l = "F64" -> "F64"
    [] l = "Bool" -> "Bool"
    [] l = "String" -> "String"
    [] OTHER -> "Any"

\* a TypeCheckingResult<Type>
TcOk(ty) == [ok |-> TRUE, ty |-> ty, err |-> "none"]
TcErr(kind) == [ok |-> FALSE, ty |-> "none", err |-> kind]

lookup(env, id) ==
  IF id \in DOMAIN env THEN TcOk(env[id]) ELSE TcErr("NoSuchVariable")

ensure(expected, got) ==
  IF expected = got THEN TcOk(got) ELSE TcErr("TypeMismatch")

ensure_ref(got) ==
  IF \E ty \in GroundTypes : got = ref_ty_(ty)
  THEN TcOk(CHOOSE ty \in GroundTypes : got = ref_ty_(ty))
  ELSE TcErr("ExpectedRef")

assert_variant_of_any(ty) ==
  IF ty = "Any" \/ ty = "Env" \/ (\E t \in GroundTypes : ty = ref_ty_(t))
  THEN TcErr("InvalidInContext")
  ELSE TcOk(ty)

\* e1?; then e2 with the value of e1
Try(r, next) == IF r.ok THEN next ELSE r

RECURSIVE type_check_atom(_, _)
type_check_atom(env, a) ==
  CASE a.k = "Lit" -> TcOk(lit_typ(a.lit))
    [] a.k = "Id" -> lookup(env, a.id)
    [] a.k = "ToAny" ->
         LET ty == type_check_atom(env, a.a) IN
         Try(ty, Try(assert_variant_of_any(ty.ty), TcOk("Any")))
    [] a.k = "FromAny" ->
         LET got == type_check_atom(env, a.a) IN
         Try(got, Try(ensure("Any", got.ty), TcOk(a.ty)))

type_check_expr(env, e) ==
  CASE e.k = "ObjectEmpty" -> TcOk("DynObject")
    [] e.k = "ArraySet" ->
         LET got_arr == type_check_atom(env, e.arr)
             got_idx == type_check_atom(env, e.index)
             got_val == type_check_atom(env, e.val)
         IN  Try(got_arr, Try(got_idx, Try(got_val,
               Try(ensure("I32", got_idx.ty),
                 \* the two other ensure results are dropped without `?`
                 TcOk("Any")))))
    [] e.k = "ObjectSet" ->
         LET got_obj == type_check_atom(env, e.obj)
             got_field == type_check_atom(env, e.field)
             got_val == type_check_atom(env, e.val)
         IN  Try(got_obj, Try(got_field, Try(got_val,
               Try(ensure("DynObject", got_obj.ty),
                 Try(ensure("String", got_field.ty),
                   Try(ensure("Any", got_val.ty), TcOk("Any")))))))
    [] e.k = "NewRef" ->
         LET actual == type_check_atom(env, e.a) IN
         Try(actual, Try(ensure(e.ty, actual.ty), TcOk(ref_ty_(e.ty))))
    [] e.k = "Atom" -> type_check_atom(env, e.a)

\* a TypeCheckingResult<Env>, with the statement as type_check_stmt left
\* it; res is "Ok", the error kind, or "panic"
StOk(env, s) == [res |-> "Ok", env |-> env, s |-> s]
StErr(kind, env, s) == [res |-> kind, env |-> env, s |-> s]

type_check_var(env, var_stmt, ty) ==
  IF ~ty.ok THEN StErr(ty.err, env, var_stmt)
  ELSE IF /\ var_stmt.e.k = "Atom" /\ var_stmt.e.a.k = "Lit"
             /\ var_stmt.e.a.lit = "Undefined" /\ var_stmt.ty # "None"
  THEN \* an initialization with undefined keeps the declared type
       IF var_stmt.id = "_" THEN StOk(env, var_stmt)
       ELSE StOk(MapPut(env, var_stmt.id, var_stmt.ty), var_stmt)
  ELSE IF ~(var_stmt.ty = "None" \/ var_stmt.ty = ty.ty)
  THEN StErr("panic", env, var_stmt)      \* the assert! fails
  ELSE LET typed == [var_stmt EXCEPT !.ty = ty.ty] IN
       IF var_stmt.id = "_" THEN StOk(env, typed)
       ELSE StOk(MapPut(env, var_stmt.id, ty.ty), typed)

RECURSIVE type_check_stmt(_, _, _)
RECURSIVE type_check_block(_, _, _, _)

\* the loop of Stmt::Block: the statements from the i-th on, under env_inner
type_check_block(env_inner, ss, i, ret_ty) ==
  IF i > Len(ss) THEN StOk(env_inner, ss)
  ELSE LET r == type_check_stmt(env_inner, ss[i], ret_ty) IN
       IF r.res # "Ok" THEN StErr(r.res, env_inner, [ss EXCEPT ![i] = r.s])
       ELSE type_check_block(r.env, [ss EXCEPT ![i] = r.s], i + 1, ret_ty)

type_check_stmt(env, s, ret_ty) ==
  CASE s.k = "Empty" -> StOk(env, s)
    [] s.k = "Var" -> type_check_var(env, s, type_check_expr(env, s.e))
    [] s.k = "Expression" ->
         LET r == type_check_expr(env, s.e) IN
         IF r.ok THEN StOk(env, s) ELSE StErr(r.err, env, s)
    [] s.k = "Store" ->
         LET got_id == lookup(env, s.id)
             got_expr == type_check_expr(env, s.e)
             type_pointed_to == ensure_ref(got_id.ty)
             r == Try(got_id, Try(got_expr, Try(type_pointed_to,
                    ensure(type_pointed_to.ty, got_expr.ty))))
         IN  IF r.ok THEN StOk(env, s) ELSE StErr(r.err, env, s)
    [] s.k = "Assign" ->
         LET got_id == lookup(env, s.id)
             got_expr == type_check_expr(env, s.e)
             r == Try(got_id, Try(got_expr, ensure(got_id.ty, got_expr.ty)))
         IN  IF r.ok THEN StOk(env, s) ELSE StErr(r.err, env, s)
    [] s.k = "If" ->
         LET got == type_check_atom(env, s.c)
             r == Try(got, ensure("Bool", got.ty))
             r1 == type_check_stmt(env, s.s1, ret_ty)
             r2 == type_check_stmt(env, s.s2, ret_ty)
         IN  IF ~r.ok THEN StErr(r.err, env, s)
             ELSE IF r1.res # "Ok" THEN StErr(r1.res, env, [s EXCEPT !.s1 = r1.s])
             ELSE IF r2.res # "Ok"
             THEN StErr(r2.res, env, [s EXCEPT !.s1 = r1.s, !.s2 = r2.s])
             ELSE StOk(env, [s EXCEPT !.s1 = r1.s, !.s2 = r2.s])
    [] s.k = "Return" ->
         LET got == type_check_atom(env, s.a) IN
         IF ~got.ok THEN StErr(got.err, env, s)
         ELSE IF ret_ty = "None" THEN StErr("UnexpectedReturn", env, s)
         ELSE IF ensure(ret_ty, got.ty).ok THEN StOk(env, s)
         ELSE StErr("TypeMismatch", env, s)
    [] s.k = "Block" ->
         LET r == type_check_block(env, s.ss, 1, ret_ty) IN
         [res |-> r.res, env |-> env, s |-> [s EXCEPT !.ss = r.s]]

type_check_function(env, f) ==
  IF Len(f.args) # Len(f.params) THEN StErr("ArityMismatch", env, f.body)
  ELSE type_check_stmt(
         [x \in DOMAIN env \cup Range(f.params) |->
            IF \E i \in DOMAIN f.params : f.params[i] = x
            THEN f.args[CHOOSE i \in DOMAIN f.params :
                          f.params[i] = x
                          /\ \A j \in (i + 1)..Len(f.params) : f.params[j] # x]
            ELSE env[x]],
         f.body, f.result)

\* Env::new(): the runtime bindings, all of them functions
EnvNew == [x \in Range(RtBindings) |-> "Fn"]

RECURSIVE type_check_functions(_, _, _)
\* the last loop of type_check: the functions from the i-th on
type_check_functions(env, functions, i) ==
  IF i > Len(functions) THEN [res |-> "Ok", functions |-> functions]
  ELSE LET r == type_check_function(env, functions[i].fn)
           checked == [functions EXCEPT ![i].fn.body = r.s]
       IN  IF r.res # "Ok" THEN [res |-> r.res, functions |-> checked]
           ELSE type_check_functions(env, checked, i + 1)

\* type_check on a program without globals and without imports of its own
type_check(p) ==
  IF \E i \in DOMAIN p.functions : p.functions[i].name \in DOMAIN EnvNew
  THEN [res |-> "MultiplyDefined", functions |-> p.functions]
  ELSE type_check_functions(
         [x \in DOMAIN EnvNew \cup {p.functions[i].name : i \in DOMAIN p.functions}
            |-> "Fn"],
         p.functions, 1)

\* Result::expect on what type_check returned, then intern and translate
compile(p) ==
  LET checked == type_check(p) IN
  [program |-> [p EXCEPT !.functions = checked.functions],
   check |-> checked.res,
   result |-> IF checked.res = "Ok" THEN "Ok" ELSE "panic"]

(***************************************************************************)
(* The programs handed to compile: one function of three parameters whose  *)
(* body is a block of two statements.                                      *)
(***************************************************************************)
CmpParams == <<"arr", "obj", "any">>
CmpArgs == <<"Array", "DynObject", "Any">>

CmpInits ==
  {EAtom(ALit("I32")), EAtom(ALit("Bool")), EAtom(ALit("Undefined")),
   EAtom(AId("any")), NewRef(ALit("I32"), "I32"), NewRef(ALit("Bool"), "I32")}

CmpVars ==
  {VarStmt("x", ty, e) : ty \in {"None", "I32", "Any", ref_ty_("I32")},
                         e \in CmpInits}

CmpArrayAtoms == {AId("arr"), AId("any"), ALit("I32")}
CmpObjectAtoms == {AId("obj"), AId("any"), ALit("String")}

CmpStmts ==
  CmpVars
  \cup {StoreStmt("x", e) : e \in {EAtom(ALit("I32")), EAtom(ALit("Bool"))}}
  \cup {AssignStmt("x", e) : e \in {EAtom(ALit("I32")), EAtom(ALit("Bool"))}}
  \cup {Expression(ArraySet(a, i, v)) : a \in CmpArrayAtoms, i \in CmpArrayAtoms,
                                        v \in CmpArrayAtoms}
  \cup {Expression(ObjectSet(o, f, v)) : o \in CmpObjectAtoms,
                                         f \in CmpObjectAtoms,
                                         v \in CmpObjectAtoms}
  \cup {if_(c, EmptyStmt, ReturnStmt(ALit("I32"))) : c \in {ALit("Bool"), AId("x")}}
  \cup {ReturnStmt(ALit("I32")), ReturnStmt(to_any_(ALit("I32"))),
        ReturnStmt(to_any_(AId("any"))), ReturnStmt(from_any_(AId("any"), "I32")),
        EmptyStmt}

CmpPrograms ==
  {[functions |-> <<[name |-> name,
                     fn |-> [params |-> CmpParams, args |-> args, result |-> result,
                             body |-> rope_to_block(<<s1, s2>>)]]>>] :
     name \in {"main"}, args \in {CmpArgs}, result \in {"None", "I32"},
     s1 \in CmpVars \cup {EmptyStmt}, s2 \in CmpStmts}
  \cup {[functions |-> <<[name |-> name,
                     fn |-> [params |-> CmpParams, args |-> args, result |-> "None",
                             body |-> rope_to_block(<<EmptyStmt>>)]]>>] :
     name \in {"main", "init"}, args \in {CmpArgs, <<"Array">>}}

CmpInit ==
  /\ FirstIdle /\ ClsIdle /\ BoxIdle /\ RestIdle
  /\ cmp_phase = "input"
  /\ cmp_program \in CmpPrograms
  /\ cmp_check = "none" /\ cmp_result = "none"

\* what compile returned or that it panicked
Compiled(r) ==
  /\ cmp_phase' = "done"
  /\ cmp_program' = r.program
  /\ cmp_check' = r.check
  /\ cmp_result' = r.result

Compile ==
  /\ cmp_phase = "input"
  /\ Compiled(compile(cmp_program))
  /\ UNCHANGED nonCmpVars

CmpNext == Compile

SpecCmp == CmpInit /\ [][CmpNext]_vars

\* C13: a program that fails the type check makes compile return an error
\* value: compile does not panic and yields no output bytes.
C13_TypeErrorIsReturned ==
  (cmp_phase = "done" /\ cmp_check # "Ok") => cmp_result = "Err"

(***************************************************************************)
(*                    HIDDEN CLASSES: ClassPtr::insert                     *)
(***************************************************************************)
ClsHeapWords == 6    \* Heap::new(size), in words

ClsNames == {"x", "y", "z"}
ClsValues == {"v1", "v2"}     \* what value.get_ptr() can be
Null == "null"

\* Class::new(): no field, no transition
Class_new == [size |-> 0, offsets |-> <<>>, transitions |-> <<>>]

\* Class::lookup: the offset of name, -1 for None
Class_lookup(class, name) == IndexOf(class.offsets, name)

\* ClassList::transition: the class the trie leads to on name, made on the
\* first transition
transition(classes, class_tag, name) ==
  LET class == classes[class_tag] IN
  IF \E i \in DOMAIN class.transitions : class.transitions[i].name = name
  THEN [classes |-> classes,
        tag |-> class.transitions[CHOOSE i \in DOMAIN class.transitions :
                                    class.transitions[i].name = name].tag]
  ELSE [classes |->
          Append([classes EXCEPT ![class_tag].transitions =
                    Append(@, [name |-> name, tag |-> Len(classes) + 1])],
                 [size |-> class.size + 1,
                  offsets |-> Append(class.offsets, name),
                  transitions |-> <<>>]),
        tag |-> Len(classes) + 1]

RECURSIVE WordsOf(_, _)
\* the words the containers take: a tag and the fields of each
WordsOf(classes, objects) ==
  IF objects = <<>> THEN 0
  ELSE tag_size + classes[Head(objects).class_tag].size
       + WordsOf(classes, Tail(objects))

\* Heap::alloc_container: a container of the class with every field null,
\* None (the objects as they were) when the heap has no room for it
alloc_container(classes, objects, type_tag) ==
  IF WordsOf(classes, objects) + tag_size + classes[type_tag].size > ClsHeapWords
  THEN [objects |-> objects, ptr |-> 0]
  ELSE [objects |-> Append(objects,
                      [class_tag |-> type_tag,
                       fields |-> [i \in 1..classes[type_tag].size |-> Null]]),
        ptr |-> Len(objects) + 1]

\* ClassPtr::read_at, Null for None; index is 0-based
read_at(objects, ptr, index) == objects[ptr].fields[index + 1]

\* ClassPtr::write_at
write_at(objects, ptr, index, value) ==
  [objects EXCEPT ![ptr].fields[index + 1] = value]

\* the copy loop without reading the old object
copy_fields_none(objects, self, new_object, i, size) == objects

RECURSIVE copy_fields(_, _, _, _, _)
\* the loop of insert: for i in 0..size, copy the fields that are not None
copy_fields(objects, self, new_object, i, size) ==
  IF i >= size THEN objects
  ELSE copy_fields(
         IF read_at(objects, self, i) # Null
         THEN write_at(objects, new_object, i, read_at(objects, self, i))
         ELSE objects,
         self, new_object, i + 1, size)

\* the None arm of insert once the container is there
insert_moved(classes, allocated, self, size, value) ==
  IF allocated.ptr = 0
  THEN [classes |-> classes, objects |-> allocated.objects, ret |-> 0]
  ELSE [classes |-> classes,
        objects |-> write_at(copy_fields(allocated.objects, self, allocated.ptr,
                                         0, size),
                             allocated.ptr, size, value),
        ret |-> allocated.ptr]

insert_transitioned(moved, objects, self, size, value) ==
  insert_moved(moved.classes, alloc_container(moved.classes, objects, moved.tag),
               self, size, value)

\* ClassPtr::insert; ret is the object returned, 0 for None
ClassPtr_insert(classes, objects, self, name, value) ==
  LET class_tag == objects[self].class_tag
      class == classes[class_tag]
      offset == Class_lookup(class, name)
  IN  IF offset # -1
      THEN [classes |-> classes,
            objects |-> write_at(objects, self, offset, value),
            ret |-> self]
      ELSE insert_transitioned(transition(classes, class_tag, name),
                               objects, self, class.size, value)

ClsInit ==
  /\ FirstIdle /\ CmpIdle /\ BoxIdle /\ RestIdle
  /\ cls_phase = "run"
  \* new_class_type(Class::new()) and one object of that class
  /\ cls_classes = <<Class_new>>
  /\ cls_objects = <<[class_tag |-> 1, fields |-> <<>>]>>
  /\ cls_self = 1
  /\ cls_written = <<>>
  /\ cls_last = NoOp

\* obj = obj.insert(heap, name, value), the caller keeping its pointer on None
Inserted(r, name, value) ==
  /\ cls_classes' = r.classes
  /\ cls_objects' = r.objects
  /\ cls_self' = IF r.ret = 0 THEN cls_self ELSE r.ret
  /\ cls_written' = IF r.ret = 0 THEN cls_written
                    ELSE [n \in DOMAIN cls_written \cup {name} |->
                            IF n = name THEN value ELSE cls_written[n]]
  /\ cls_last' = [op |-> "insert", name |-> name, value |-> value,
                  self |-> cls_self, ret |-> r.ret,
                  had |-> Class_lookup(cls_classes[cls_objects[cls_self].class_tag],
                                       name) # -1,
                  seen |-> name \in DOMAIN cls_written,
                  tag |-> cls_objects[cls_self].class_tag,
                  old |-> cls_objects[cls_self].fields,
                  classes |-> cls_classes, nobj |-> Len(cls_objects)]

Insert ==
  /\ cls_phase = "run"
  /\ \E name \in ClsNames, value \in ClsValues :
       Inserted(ClassPtr_insert(cls_classes, cls_objects, cls_self, name, value),
                name, value)
  /\ UNCHANGED <<cls_phase, nonClsVars>>

\* a get of name: Class::lookup, then read_at of the offset
Get ==
  /\ cls_phase = "run"
  /\ \E name \in ClsNames :
       LET offset == Class_lookup(cls_classes[cls_objects[cls_self].class_tag], name)
       IN  cls_last' = [NoOp EXCEPT !.op = "get", !.name = name, !.self = cls_self,
                          !.had = offset # -1,
                          !.value = IF offset = -1 THEN Null
                                    ELSE read_at(cls_objects, cls_self, offset)]
  /\ UNCHANGED <<cls_phase, cls_classes, cls_objects, cls_self, cls_written,
                 nonClsVars>>

ClsNext == Insert \/ Get

SpecCls == ClsInit /\ [][ClsNext]_vars

\* the last insert wrote in place: the object returned is the one it was
\* called on, of the class it had; no class and no object were made
WroteInPlace ==
  /\ cls_last.ret = cls_last.self
  /\ cls_classes = cls_last.classes
  /\ Len(cls_objects) = cls_last.nobj
  /\ cls_objects[cls_last.ret].class_tag = cls_last.tag
  /\ LET offset == Class_lookup(cls_classes[cls_last.tag], cls_last.name) IN
     cls_objects[cls_last.ret].fields =
       [cls_last.old EXCEPT ![offset + 1] = cls_last.value]

\* the last insert moved the object: the object returned is a new one, of
\* the class the old class transitions to on the name; it holds the fields
\* of the old object and, after them, the value
MovedToNewClass ==
  /\ cls_last.ret = cls_last.nobj + 1
  /\ Len(cls_objects) = cls_last.nobj + 1
  /\ LET new_object == cls_objects[cls_last.ret]
         size == cls_last.classes[cls_last.tag].size
     IN  /\ new_object.class_tag # cls_last.tag
         /\ \E i \in DOMAIN cls_classes[cls_last.tag].transitions :
              cls_classes[cls_last.tag].transitions[i] =
                [name |-> cls_last.name, tag |-> new_object.class_tag]
         /\ cls_classes[new_object.class_tag].offsets =
              Append(cls_last.classes[cls_last.tag].offsets, cls_last.name)
         /\ Len(new_object.fields) = size + 1
         /\ \A i \in 1..size : new_object.fields[i] = cls_last.old[i]
         /\ new_object.fields[size + 1] = cls_last.value
         /\ cls_objects[cls_last.self].fields = cls_last.old

\* the last insert returned None: the caller's object is as it was
ReturnedNone ==
  /\ cls_last.ret = 0
  /\ Len(cls_objects) = cls_last.nobj
  /\ cls_self = cls_last.self
  /\ cls_objects[cls_self].class_tag = cls_last.tag
  /\ cls_objects[cls_self].fields = cls_last.old

\* a name inserted before is found in the class: no second transition
SecondInsertInPlace ==
  (cls_last.op = "insert" /\ cls_last.seen) => (cls_last.had /\ WroteInPlace)

\* a get of a name inserted before returns the last value inserted
GetReturnsLastInserted ==
  (cls_last.op = "get" /\ cls_last.name \in DOMAIN cls_written)
    => cls_last.value = cls_written[cls_last.name]

\* C14 as stated: insert writes in place when the class has the field and
\* otherwise returns a new object of the transitioned class holding the old
\* fields and the value; a second insert of a name does not transition and
\* a later get returns the last value inserted.
C14_InsertReturnsObject ==
  /\ cls_last.op = "insert" =>
       IF cls_last.had THEN WroteInPlace ELSE MovedToNewClass
  /\ SecondInsertInPlace
  /\ GetReturnsLastInserted

\* C14 amended: as above, except that an insert of a new name returns None
\* and leaves the object as it was when the heap has no room for the new
\* object.
C14_InsertReturnsObjectOrNone ==
  /\ cls_last.op = "insert" =>
       IF cls_last.had THEN WroteInPlace
       ELSE MovedToNewClass \/ ReturnedNone
  /\ SecondInsertInPlace
  /\ GetReturnsLastInserted

\* an object of two fields was moved to a third class, and a name inserted
\* before was inserted again
C14_Witness ==
  /\ cls_last.op = "insert" /\ cls_last.seen /\ cls_last.ret = 3
  /\ Len(cls_objects) = 3
  /\ cls_objects[3].fields[1] # Null
  /\ cls_objects[3].fields[2] # cls_objects[3].fields[1]

(***************************************************************************)
(*                     THE BOXING PASS: box_assigns                        *)
(***************************************************************************)
TRef(t) == [k |-> "Ref", of |-> t]
TypedId(x, t) == [e |-> "Id", x |-> x, t |-> t]
TypedAssign(x, t, v) == [e |-> "Assign", x |-> x, t |-> t, v |-> v]
BFunc(args_with_typs, free_vars, assigned_free_children, body) ==
  [e |-> "Func",
   fn |-> [args_with_typs |-> args_with_typs, free_vars |-> free_vars,
           assigned_free_children |-> assigned_free_children, body |-> body]]
j_deref_(of, t) == [e |-> "Deref", of |-> of, t |-> t]
j_store_(x, v, t) == [e |-> "Store", x |-> x, v |-> v, t |-> t]
j_new_ref_(of, t) == [e |-> "NewRef", of |-> of, t |-> t]

\* BoxVisitor::should_box on the top of to_box_stack
should_box(to_box_stack, id) == id \in to_box_stack[Len(to_box_stack)]

\* NameGen::fresh("to_box")
fresh_to_box(ng) == "to_box" \o ToString(ng)

RECURSIVE box_params(_, _, _, _)
\* the loop of enter_fn over func.args_with_typs, from the i-th on
box_params(fn, to_box_stack, ng, i) ==
  IF i > Len(fn.args_with_typs) THEN [fn |-> fn, ng |-> ng]
  ELSE LET arg == fn.args_with_typs[i] IN
       IF should_box(to_box_stack, arg.name)
       THEN box_params(
              [fn EXCEPT !.args_with_typs[i].name = fresh_to_box(ng),
                         !.body = JBlock(<<JTyped(arg.name, arg.ty,
                                                  TypedId(fresh_to_box(ng), arg.ty)),
                                           fn.body>>)],
              to_box_stack, ng + 1, i + 1)
       ELSE box_params(fn, to_box_stack, ng, i + 1)

\* the free variables to box become refs
box_free_vars(fn, to_box_stack) ==
  [fn EXCEPT !.free_vars =
     [i \in DOMAIN @ |-> IF should_box(to_box_stack, @[i].name)
                         THEN [@[i] EXCEPT !.ty = TRef(@)] ELSE @[i]]]

\* the pushed stack with the free variables left as they were
box_enter_fn_unpushed(to_box_stack, ng, fn) ==
  [stack |-> Append(to_box_stack, to_box_stack[Len(to_box_stack)]),
   fn |-> fn, ng |-> ng]

box_entered(pushed, ng, fn) ==
  [stack |-> pushed,
   fn |-> box_params(box_free_vars(fn, pushed), pushed, ng, 1).fn,
   ng |-> box_params(box_free_vars(fn, pushed), pushed, ng, 1).ng]

\* BoxVisitor::enter_fn
box_enter_fn(to_box_stack, ng, fn) ==
  box_entered(Append(to_box_stack,
                     to_box_stack[Len(to_box_stack)]
                       \cup fn.assigned_free_children),
              ng, fn)

\* BoxVisitor::exit_fn
box_exit_fn(to_box_stack) == SubSeq(to_box_stack, 1, Len(to_box_stack) - 1)

\* BoxVisitor::exit_expr
box_exit_expr(to_box_stack, expr) ==
  CASE expr.e = "Id" /\ should_box(to_box_stack, expr.x) ->
         j_deref_([expr EXCEPT !.t = TRef(expr.t)], expr.t)
    [] expr.e = "Assign" /\ should_box(to_box_stack, expr.x) ->
         j_store_(expr.x, expr.v, expr.t)
    [] OTHER -> expr

\* BoxVisitor::exit_stmt
box_exit_stmt(to_box_stack, stmt) ==
  IF stmt.s = "Var" /\ should_box(to_box_stack, stmt.x)
  THEN IF stmt.t.k # "Any" /\ stmt.init.e = "Lit" /\ stmt.init.l = "undefined"
       THEN [stmt EXCEPT !.t = TRef(stmt.t)]
       ELSE [stmt EXCEPT !.t = TRef(stmt.t),
                         !.init = j_new_ref_(stmt.init, stmt.t)]
  ELSE stmt

\* a node walked and the name generator after it
Walked(n, ng) == [n |-> n, ng |-> ng]

RECURSIVE box_walk_expr(_, _, _)
RECURSIVE box_walk_stmt(_, _, _)
RECURSIVE box_walk_each(_, _, _, _, _)

\* the children of a node, the i-th on, walked from left to right
box_walk_each(to_box_stack, ng, nodes, i, stmts) ==
  IF i > Len(nodes) THEN Walked(nodes, ng)
  ELSE LET r == IF stmts THEN box_walk_stmt(to_box_stack, ng, nodes[i])
                ELSE box_walk_expr(to_box_stack, ng, nodes[i])
       IN  box_walk_each(to_box_stack, r.ng, [nodes EXCEPT ![i] = r.n], i + 1, stmts)

walked_fn(to_box_stack, expr, entered) ==
  LET body == box_walk_stmt(entered.stack, entered.ng, entered.fn.body) IN
  Walked(box_exit_expr(box_exit_fn(entered.stack),
                       [expr EXCEPT !.fn = [entered.fn EXCEPT !.body = body.n]]),
         body.ng)

\* Expr::walk with the BoxVisitor: the children, then exit_expr; a function
\* between enter_fn and exit_fn
box_walk_expr(to_box_stack, ng, expr) ==
  CASE expr.e = "Assign" ->
         LET v == box_walk_expr(to_box_stack, ng, expr.v) IN
         Walked(box_exit_expr(to_box_stack, [expr EXCEPT !.v = v.n]), v.ng)
    [] expr.e = "Binary" ->
         LET es == box_walk_each(to_box_stack, ng, expr.es, 1, FALSE) IN
         Walked(box_exit_expr(to_box_stack, [expr EXCEPT !.es = es.n]), es.ng)
    [] expr.e = "Func" ->
         walked_fn(to_box_stack, expr, box_enter_fn(to_box_stack, ng, expr.fn))
    [] OTHER -> Walked(box_exit_expr(to_box_stack, expr), ng)

\* Stmt::walk with the BoxVisitor
box_walk_stmt(to_box_stack, ng, stmt) ==
  CASE stmt.s = "Var" ->
         LET init == box_walk_expr(to_box_stack, ng, stmt.init) IN
         Walked(box_exit_stmt(to_box_stack, [stmt EXCEPT !.init = init.n]), init.ng)
    [] stmt.s = "Expr" ->
         LET ex == box_walk_expr(to_box_stack, ng, stmt.ex) IN
         Walked(box_exit_stmt(to_box_stack, [stmt EXCEPT !.ex = ex.n]), ex.ng)
    [] stmt.s = "Block" ->
         LET ss == box_walk_each(to_box_stack, ng, stmt.ss, 1, TRUE) IN
         Walked(box_exit_stmt(to_box_stack, [stmt EXCEPT !.ss = ss.n]), ss.ng)
    [] OTHER -> Walked(box_exit_stmt(to_box_stack, stmt), ng)

\* box_assigns: BoxVisitor::new(should_box_globals), then the walk
box_assigns(prog, should_box_globals) ==
  box_walk_stmt(<<should_box_globals>>, 0, prog).n

(***************************************************************************)
(* The programs handed to box_assigns: two statements, the second possibly *)
(* a function with a function inside; every type is a ground type.         *)
(***************************************************************************)
BoxLeaves ==
  {JLit("int"), TypedId("x", Ty("Int")),
   TypedAssign("x", Ty("Int"), JLit("int")),
   TypedAssign("y", Ty("Any"), TypedId("x", Ty("Int"))),
   JBinary("+", <<TypedId("x", Ty("Int")), TypedId("y", Ty("Any"))>>)}

BoxStmts ==
  {JTyped("x", Ty("Int"), JLit("int")), JTyped("x", Ty("Int"), JLit("undefined")),
   JTyped("x", Ty("Any"), JLit("undefined")),
   JTyped("y", Ty("Any"), TypedId("x", Ty("Int")))}
  \cup {JExpr(e) : e \in BoxLeaves}

BoxArg(x) == [name |-> x, ty |-> Ty("Any")]
BoxFree == {<<>>, <<[name |-> "x", ty |-> Ty("Int")]>>}

BoxInnerFuncs ==
  {BFunc(args, free, afc, JBlock(<<s>>)) :
     args \in {<<>>, <<BoxArg("x")>>}, free \in BoxFree, afc \in {{}, {"y"}},
     s \in {JExpr(TypedAssign("x", Ty("Int"), JLit("int"))),
            JExpr(TypedId("y", Ty("Any"))),
            JTyped("y", Ty("Any"), JLit("undefined"))}}

BoxOuterFuncs ==
  {BFunc(args, free, afc, JBlock(<<s1, s2>>)) :
     args \in {<<>>, <<BoxArg("x")>>, <<BoxArg("x"), BoxArg("y")>>},
     free \in BoxFree, afc \in {{}, {"x"}, {"x", "y"}},
     s1 \in {JTyped("x", Ty("Int"), JLit("int")),
             JExpr(TypedAssign("y", Ty("Any"), TypedId("x", Ty("Int"))))},
     s2 \in {JExpr(f) : f \in BoxInnerFuncs}
            \cup {JExpr(TypedId("x", Ty("Int")))}}

BoxProgs ==
  {JBlock(<<s1, s2>>) :
     s1 \in BoxStmts, s2 \in BoxStmts \cup {JExpr(f) : f \in BoxOuterFuncs}}

BoxInit ==
  /\ FirstIdle /\ CmpIdle /\ ClsIdle /\ RestIdle
  /\ box_phase = "input"
  /\ box_globals \in {{}, {"x"}, {"x", "y"}}
  /\ box_program \in BoxProgs

BoxAssigns ==
  /\ box_phase = "input"
  /\ box_phase' = "done"
  /\ box_program' = box_assigns(box_program, box_globals)
  /\ UNCHANGED <<box_globals, nonBoxVars>>

BoxNext == BoxAssigns

SpecBox == BoxInit /\ [][BoxNext]_vars

NoRefRef(t) == ~(t.k = "Ref" /\ t.of.k = "Ref")

RECURSIVE BoxedExpr(_, _, _)
RECURSIVE BoxedStmt(_, _)

\* under the to-box set in effect: no Assign to an identifier of the set,
\* every Id of the set is typed Ref(T) and is what a Deref of type T reads,
\* no type is a Ref of a Ref
BoxedExpr(expr, to_box, under_deref) ==
  CASE expr.e = "Lit" -> TRUE
    [] expr.e = "Id" ->
         /\ NoRefRef(expr.t)
         /\ expr.x \in to_box => (under_deref /\ expr.t.k = "Ref")
    [] expr.e = "Deref" ->
         /\ NoRefRef(expr.t)
         /\ expr.of.e = "Id" => expr.of.t = TRef(expr.t)
         /\ BoxedExpr(expr.of, to_box, TRUE)
    [] expr.e = "Assign" ->
         expr.x \notin to_box /\ BoxedExpr(expr.v, to_box, FALSE)
    [] expr.e = "Store" -> NoRefRef(expr.t) /\ BoxedExpr(expr.v, to_box, FALSE)
    [] expr.e = "NewRef" ->
         NoRefRef(TRef(expr.t)) /\ BoxedExpr(expr.of, to_box, FALSE)
    [] expr.e = "Binary" ->
         \A i \in DOMAIN expr.es : BoxedExpr(expr.es[i], to_box, FALSE)
    [] expr.e = "Func" ->
         /\ \A i \in DOMAIN expr.fn.free_vars : NoRefRef(expr.fn.free_vars[i].ty)
         /\ \A i \in DOMAIN expr.fn.args_with_typs :
              NoRefRef(expr.fn.args_with_typs[i].ty)
         /\ BoxedStmt(expr.fn.body, to_box \cup expr.fn.assigned_free_children)

BoxedStmt(stmt, to_box) ==
  CASE stmt.s = "Var" ->
         /\ NoRefRef(stmt.t)
         /\ stmt.x \in to_box => stmt.t.k = "Ref"
         /\ BoxedExpr(stmt.init, to_box, FALSE)
    [] stmt.s = "Expr" -> BoxedExpr(stmt.ex, to_box, FALSE)
    [] stmt.s = "Block" -> \A i \in DOMAIN stmt.ss : BoxedStmt(stmt.ss[i], to_box)

\* C15: after box_assigns, under the to-box set in effect at each point (the
\* global set united with assigned_free_children of the enclosing functions)
\* no Assign to an identifier of the set remains, every read of one is a
\* Deref of an Id typed Ref(T), every Var of one is declared Ref(T), and no
\* type Ref(Ref(_)) appears.
C15_BoxedEverywhere ==
  box_phase = "done" => BoxedStmt(box_program, box_globals)

\* a function whose two parameters were boxed, with an inner function that
\* stores into the captured x
C15_Witness ==
  /\ box_phase = "done" /\ box_globals = {}
  /\ box_program.ss[2].s = "Expr" /\ box_program.ss[2].ex.e = "Func"
  /\ LET fn == box_program.ss[2].ex.fn IN
     /\ fn.assigned_free_children = {"x", "y"}
     /\ fn.args_with_typs = <<[name |-> "to_box0", ty |-> Ty("Any")],
                              [name |-> "to_box1", ty |-> Ty("Any")]>>
     /\ fn.body.ss[1] = JTyped("y", TRef(Ty("Any")),
                               j_new_ref_(TypedId("to_box1", Ty("Any")), Ty("Any")))
     /\ fn.body.ss[2].ss[1] = JTyped("x", TRef(Ty("Any")),
                               j_new_ref_(TypedId("to_box0", Ty("Any")), Ty("Any")))
     /\ \E inner \in BoxInnerFuncs :
          /\ inner.fn.free_vars # <<>>
          /\ inner.fn.args_with_typs = <<>>
          /\ fn.body.ss[2].ss[2].ss[2].ex.e = "Func"
          /\ fn.body.ss[2].ss[2].ss[2].ex.fn.free_vars =
               <<[name |-> "x", ty |-> TRef(Ty("Int"))]>>
          /\ fn.body.ss[2].ss[2].ss[2].ex.fn.body.ss[1] =
               JExpr(j_store_("x", JLit("int"), Ty("Int")))

(***************************************************************************)
(*                  FURTHER PROPERTIES OF THE EMITTER                      *)
(***************************************************************************)
\* C16: with GC enabled, a path of the emitted function that ends at the
\* Unreachable of a Stmt::Trap has called gc_exit_fn before it: the shadow
\* frame pushed by gc_enter_fn is popped on that path too.
C16_TrapPathCallsExit ==
  (GcEmitted /\ halt = "trap") => n_exit = 1

RECURSIVE num_anys_expr(_)
RECURSIVE num_anys_each(_)
\* CountToAnys over expressions: one for every Coercion::Meta whose right
\* type is Any
num_anys_each(es) ==
  IF es = <<>> THEN 0 ELSE num_anys_expr(Head(es)) + num_anys_each(Tail(es))

num_anys_expr(ex) ==
  CASE ex.e = "Coercion" ->
         (IF ex.dst = Ty("Any") THEN 1 ELSE 0) + num_anys_expr(ex.of)
    [] ex.e \in {"Array", "Object", "Binary", "JsOp"} -> num_anys_each(ex.es)
    [] ex.e = "Dot" -> num_anys_expr(ex.o)
    [] ex.e = "Assign" -> num_anys_expr(ex.v)
    [] OTHER -> 0

RECURSIVE num_anys(_)
\* CountToAnys over a statement
num_anys(st) ==
  CASE st.s = "Var" -> num_anys_expr(st.init)
    [] st.s = "Expr" -> num_anys_expr(st.ex)
    [] OTHER -> IF st.ss = <<>> THEN 0
                ELSE num_anys(Head(st.ss)) + num_anys([st EXCEPT !.ss = Tail(@)])

\* typeinf has run once, to its end, on the program `before`
InferredOnce == inf_phase = "done" /\ inf_runs = 1

\* the program is one array or object literal whose members are literals
IsLiteralAggregate(p) ==
  /\ Len(p.ss) = 1 /\ p.ss[1].s = "Expr"
  /\ p.ss[1].ex.e \in {"Array", "Object"}
  /\ \A i \in DOMAIN p.ss[1].ex.es : p.ss[1].ex.es[i].e = "Lit"

\* the program is var x = <literal>; x = <literal>;
IsLiteralUpdate(p) ==
  /\ Len(p.ss) = 2 /\ p.ss[1].s = "Var" /\ p.ss[1].init.e = "Lit"
  /\ p.ss[2].s = "Expr" /\ p.ss[2].ex.e = "Assign" /\ p.ss[2].ex.v.e = "Lit"

InitTyp(p) == typ_lit(p.ss[1].init.l)
UpdateTyp(p) == typ_lit(p.ss[2].ex.v.l)

\* the members of a literal aggregate whose literal is not already of type
\* Any
TypedMembers(p) ==
  {i \in DOMAIN p.ss[1].ex.es : typ_lit(p.ss[1].ex.es[i].l) # Ty("Any")}

C18_UpdateSeen ==
  /\ InferredOnce
  /\ before = JBlock(<<JVar("x", JLit("int")), JExpr(JAssign("x", JLit("bool")))>>)
  /\ num_anys(janky) = 2


(***************************************************************************)
(*      ONE CONTINUATION DISPATCH (notwasm/from_jankyscript.rs, impl C)    *)
(* recv_a and recv_e are called once, on a context whose closure makes no  *)
(* temporary of its own: the closures of Stmt::Return and Stmt::Expr       *)
(* (C::a), of compile_exprs and of Store (C::id), of Stmt::Var and of the  *)
(* inner closure of Store (C::e).                                          *)
(***************************************************************************)
MaxNamed == 2      \* how many names S::fresh has handed out before the call

RecvContexts ==
  { [f |-> "Stmt::Return"], [f |-> "Stmt::Expr"],
    [f |-> "compile_exprs"], [f |-> "Store", ex |-> JLit("int")],
    [f |-> "Stmt::Var", id |-> "y", ty |-> "Any"], [f |-> "Store2", into |-> "r"] }

RecvAtoms == {ALit("I32"), ALit("Bool"), AId("x"), AId("anf0")}

RecvExprs == {EAtom(ALit("I32")), EAtom(AId("x")), ObjectEmpty, prim_call("p", <<>>)}

\* the S of a compilation in which n names have been handed out and one
\* compile_exprs is collecting
RecvS(n) == [NewS EXCEPT !.next = n, !.ids = <<<<>>>>]

RecvInit ==
  /\ FirstIdle /\ CmpIdle /\ ClsIdle /\ BoxIdle /\ SegIdle /\ AnyIdle
  /\ recv_phase = "input"
  /\ recv_cxt \in RecvContexts
  /\ recv_state \in {RecvS(n) : n \in 0..MaxNamed}
  /\ recv_atom \in RecvAtoms
  /\ recv_expr \in RecvExprs
  /\ recv_op = "none"
  /\ recv_out = <<>>

\* cxt.recv_a(state, a)
RecvA ==
  /\ recv_phase = "input"
  /\ recv_out' = recv_a(recv_cxt, recv_state, recv_atom)
  /\ recv_op' = "recv_a"
  /\ recv_phase' = "done"
  /\ UNCHANGED <<recv_cxt, recv_state, recv_atom, recv_expr>>
  /\ UNCHANGED nonRecvVars

\* cxt.recv_e(state, e)
RecvE ==
  /\ recv_phase = "input"
  /\ recv_out' = recv_e(recv_cxt, recv_state, recv_expr)
  /\ recv_op' = "recv_e"
  /\ recv_phase' = "done"
  /\ UNCHANGED <<recv_cxt, recv_state, recv_atom, recv_expr>>
  /\ UNCHANGED nonRecvVars

RecvNext == RecvA \/ RecvE

SpecRecv == RecvInit /\ [][RecvNext]_vars

\* the names S::fresh handed out before the call and during it
NamedBefore == {"anf" \o ToString(n) : n \in 0..(recv_state.next - 1)}
NamedDuring ==
  {"anf" \o ToString(n) : n \in recv_state.next..(recv_out.S.next - 1)}

\* the statements of the rope that bind a name made during the call
Temporaries ==
  {i \in DOMAIN recv_out.rope :
     recv_out.rope[i].k = "Var" /\ recv_out.rope[i].id \in NamedDuring}

\* what the closure of the context does with the value v, from the state
\* the dispatch leaves it
Continued(v) ==
  call(recv_cxt, [recv_state EXCEPT !.next = recv_out.S.next], v)

\* the call bound nothing: the closure got v and its statements are all
\* there is
BindsNothing(v) ==
  /\ recv_out.S.next = recv_state.next
  /\ Temporaries = {}
  /\ recv_out = Continued(v)

\* the call bound exactly one fresh temporary to ex, ahead of the statements
\* of the closure, which got v
BindsOne(ex, v) ==
  /\ recv_out.S.next = recv_state.next + 1
  /\ Temporaries = {1}
  /\ recv_out.rope[1] = VarStmt_new(fresh(recv_state), ex)
  /\ fresh(recv_state) \notin NamedBefore
  /\ recv_out = Then(<<recv_out.rope[1]>>, Continued(v))

\* C19: recv_a on a C::Atom or C::Expr context binds nothing; recv_a on a
\* C::Id context passes x on unchanged when the atom is Id(x) and otherwise
\* emits exactly one Var(t, Atom(a)) with a fresh t ahead of the statements
\* of the continuation; recv_e binds exactly one fresh temporary for C::Id
\* and C::Atom and none for C::Expr.
C19_TemporariesAsTabled ==
  recv_phase = "done" =>
    CASE recv_op = "recv_a" /\ shape(recv_cxt) = "Atom" -> BindsNothing(recv_atom)
      [] recv_op = "recv_a" /\ shape(recv_cxt) = "Expr" ->
           BindsNothing(EAtom(recv_atom))
      [] recv_op = "recv_a" /\ shape(recv_cxt) = "Id" ->
           IF recv_atom.k = "Id" THEN BindsNothing(recv_atom.id)
           ELSE BindsOne(EAtom(recv_atom), fresh(recv_state))
      [] recv_op = "recv_e" /\ shape(recv_cxt) = "Id" ->
           BindsOne(recv_expr, fresh(recv_state))
      [] recv_op = "recv_e" /\ shape(recv_cxt) = "Atom" ->
           BindsOne(recv_expr, AId(fresh(recv_state)))
      [] OTHER -> BindsNothing(recv_expr)

\* recv_a handed a literal to the closure of Store, which wants a name: one
\* Var binds the literal and the Store of the closure follows it
C19_Witness ==
  /\ recv_phase = "done" /\ recv_op = "recv_a"
  /\ recv_cxt.f = "Store" /\ recv_atom = ALit("I32") /\ recv_state.next = 1
  /\ recv_out.rope = <<VarStmt_new("anf1", EAtom(ALit("I32"))),
                       StoreStmt("anf1", EAtom(ALit("I32")))>>


(***************************************************************************)
(*         LABELS AND BREAKS (translation.rs, translate_rec)               *)
(* translate_func is applied to functions whose body is a nesting of       *)
(* Label, If, Loop and Block statements around Break statements.           *)
(***************************************************************************)
MaxNest == 3       \* how many statements enclose the innermost statement

BrkLabels == {"a", "b"}

Break_(l) == [k |-> "Break", l |-> l]
Label_(l, s) == [k |-> "Label", l |-> l, s |-> s]
Empty_ == [k |-> "Empty"]
Block_(ss) == [k |-> "Block", ss |-> ss]

BrkLeaves ==
  {Break_(l) : l \in BrkLabels}
    \cup {[k |-> "Assign", id |-> "p2", e |-> EAtom(ALit("I32"))]}

\* one more statement around each of the statements of S
Enclosed(S) ==
  {Label_(l, s) : l \in BrkLabels, s \in S}
    \cup {if_(AId("p2"), s, Empty_) : s \in S}
    \cup {if_(AId("p2"), Empty_, s) : s \in S}
    \cup {loop_(s) : s \in S}

RECURSIVE Nests(_)
\* the nestings of depth at most n; two statements in a row at depth 2
Nests(n) ==
  IF n = 0 THEN BrkLeaves
  ELSE BrkLeaves \cup Enclosed(Nests(n - 1))
         \cup (IF n = 2 THEN {Block_(<<s, t>>) : s, t \in Nests(1)} ELSE {})

RECURSIVE BreaksBound(_, _)
\* every Break of the statement names a label that encloses it
BreaksBound(stmt, labels) ==
  CASE stmt.k = "Break" -> stmt.l \in labels
    [] stmt.k = "Label" -> BreaksBound(stmt.s, labels \cup {stmt.l})
    [] stmt.k = "If" -> BreaksBound(stmt.s1, labels) /\ BreaksBound(stmt.s2, labels)
    [] stmt.k = "Loop" -> BreaksBound(stmt.s, labels)
    [] stmt.k = "Block" -> \A i \in DOMAIN stmt.ss : BreaksBound(stmt.ss[i], labels)
    [] OTHER -> TRUE

BrkFuncs ==
  { [params |-> FuncParams, args |-> FuncArgs, result |-> "Any", body |-> s] :
      s \in {n \in Nests(MaxNest) : BreaksBound(n, {})} }

BrkInit ==
  /\ HeapIdle /\ InfIdle /\ AnfIdle /\ TpIdle /\ LaterIdle
  /\ phase = "input"
  /\ func \in BrkFuncs
  /\ disable_gc \in BOOLEAN
  /\ insts = <<>> /\ locals = <<>> /\ ltys = <<>> /\ data = <<>>
  /\ pc = 0 /\ cstack = <<>> /\ n_enter = 0 /\ n_exit = 0 /\ halt = "no"

BrkNext == TranslateFunc

SpecBrk == BrkInit /\ [][BrkNext]_vars

\* ---- the source side: in the order the statements are translated, every
\* Break with the Label it leaves (numbered in that order) and the number
\* of If, Loop and Label statements entered since that Label
Around(kind, l, idx) == [k |-> kind, l |-> l, idx |-> idx]
Targets(n, out) == [n |-> n, out |-> out]

\* the innermost enclosing Label of the name: its place in `enclosing`
innermost(enclosing, l) ==
  CHOOSE i \in 1..Len(enclosing) :
    /\ enclosing[i].k = "Label" /\ enclosing[i].l = l
    /\ \A j \in 1..(i - 1) : ~(enclosing[j].k = "Label" /\ enclosing[j].l = l)

break_target(enclosing, i) == [block |-> enclosing[i].idx, d |-> i - 1]

RECURSIVE break_targets(_, _, _)
RECURSIVE break_targets_each(_, _, _)
targets_then(r, ss, enclosing) ==
  Targets(break_targets_each(ss, enclosing, r.n).n,
          r.out \o break_targets_each(ss, enclosing, r.n).out)

break_targets_each(ss, enclosing, n) ==
  IF ss = <<>> THEN Targets(n, <<>>)
  ELSE targets_then(break_targets(Head(ss), enclosing, n), Tail(ss), enclosing)

break_targets(stmt, enclosing, n) ==
  CASE stmt.k = "Break" ->
         Targets(n, <<break_target(enclosing, innermost(enclosing, stmt.l))>>)
    [] stmt.k = "Label" ->
         break_targets(stmt.s, <<Around("Label", stmt.l, n + 1)>> \o enclosing, n + 1)
    [] stmt.k = "If" ->
         break_targets_each(<<stmt.s1, stmt.s2>>, <<Around("If", "", 0)>> \o enclosing, n)
    [] stmt.k = "Loop" ->
         break_targets(stmt.s, <<Around("Loop", "", 0)>> \o enclosing, n)
    [] stmt.k = "Block" -> break_targets_each(stmt.ss, enclosing, n)
    [] OTHER -> Targets(n, <<>>)

\* ---- the wasm side: the blocks open at an instruction, innermost first
RECURSIVE open_at(_, _, _)
\* (the stack never holds more than p entries: the second test of the guard
\* only makes the stack be computed at every step)
open_at(i, p, stack) ==
  IF i >= p \/ Len(stack) > p THEN stack
  ELSE open_at(i + 1, p,
         IF insts[i].op \in {"Block", "Loop", "If"} THEN <<i>> \o stack
         ELSE IF insts[i].op = "End" /\ stack # <<>> THEN Tail(stack)
         ELSE stack)

Openers(p) == open_at(1, p, <<>>)

\* the Br(0) that closes the body of a Loop
IsLoopBack(p) ==
  /\ insts[p].op = "Br" /\ p < Len(insts) /\ insts[p + 1].op = "End"
  /\ Openers(p) # <<>> /\ insts[Head(Openers(p))].op = "Loop"

Positions == [i \in 1..Len(insts) |-> i]
\* where the Br of the Break statements are, and where the Block of the
\* Label statements are
BreakBrs == SelectSeq(Positions, LAMBDA p : insts[p].op = "Br" /\ ~IsLoopBack(p))
LabelBlocks == SelectSeq(Positions, LAMBDA p : insts[p].op = "Block")

BrkEmitted == phase = "emitted" /\ func \in BrkFuncs

\* the k-th Break became Br(d) with d the number of blocks opened since its
\* Label, and the d-th block around the Br is the Block of that Label
LandsAtLabel(tg, k) ==
  /\ insts[BreakBrs[k]].n = tg.d
  /\ Len(Openers(BreakBrs[k])) > tg.d
  /\ tg.block \in DOMAIN LabelBlocks
  /\ Openers(BreakBrs[k])[tg.d + 1] = LabelBlocks[tg.block]

\* C20: for any nesting of Label, If and Loop statements, Break(l) is
\* translated to Br(d) with d the number of wasm blocks (one for each
\* enclosing If, Loop or Label) opened between the break and the innermost
\* enclosing Label(l), so that the branch goes to the end of the Block of
\* that Label; of two enclosing labels of one name the inner is the target.
C20_BreakLandsAtLabel ==
  BrkEmitted =>
    /\ Len(BreakBrs) = Len(break_targets(func.body, <<>>, 0).out)
    /\ \A k \in DOMAIN BreakBrs :
         LandsAtLabel(break_targets(func.body, <<>>, 0).out[k], k)

\* a break under two labels of one name and an If was translated to Br(1)
C20_Witness ==
  /\ BrkEmitted
  /\ func.body = Label_("a", Label_("a", if_(AId("p2"), Break_("a"), Empty_)))
  /\ Len(BreakBrs) = 1 /\ insts[BreakBrs[1]].n = 1


(***************************************************************************)
(*     THE INLINE CACHES OF A PROGRAM (translation.rs, translate_parity)   *)
(* The loop over program.functions hands every function to translate_func  *)
(* with the one program.data, which the intern pass has filled with the    *)
(* interned strings.                                                       *)
(***************************************************************************)
MaxFuncs == 2      \* functions of a program

\* statements with field access sites: an ObjectSet, an ObjectGet, a method
\* call and a length (both with an ObjectGet in the object arm of their
\* dispatch), and one without
SegStmts ==
  { [k |-> "Expression",
       e |-> [k |-> "ObjectSet", obj |-> AId("p1"), field |-> ALit("Interned"),
              val |-> AId("p0")]],
    [k |-> "Var", id |-> "x", ty |-> "Any",
       e |-> EAtom([k |-> "ObjectGet", obj |-> AId("p1"), field |-> ALit("Interned")])],
    [k |-> "Expression",
       e |-> [k |-> "AnyMethodCall", id |-> "p0", method |-> "m",
              args |-> <<"p0", "p0">>, typs |-> MethodTyps]],
    [k |-> "Var", id |-> "w", ty |-> "I32",
       e |-> EAtom([k |-> "AnyLength", id |-> "p0", method |-> "length"])],
    [k |-> "Assign", id |-> "p2", e |-> EAtom(ALit("I32"))] }

SegFuncs ==
  { [params |-> FuncParams, args |-> FuncArgs, result |-> "Any",
     body |-> [k |-> "Block", ss |-> ss]] : ss \in SeqsUpTo(SegStmts, MaxStmts) }

\* the data segment after the intern pass: a length and the bytes of one
\* string, or of two
SegStrings == { <<1, 0, 0, 0, 120>>, <<1, 0, 0, 0, 120, 2, 0, 0, 0, 121, 122>> }

SegInit ==
  /\ FirstIdle /\ CmpIdle /\ ClsIdle /\ BoxIdle /\ RecvIdle /\ AnyIdle
  /\ seg_phase = "input"
  /\ seg_disable_gc \in BOOLEAN
  /\ seg_functions \in SeqsUpTo(SegFuncs, MaxFuncs)
  /\ seg_strings \in SegStrings
  /\ seg_data = seg_strings
  /\ seg_bodies = <<>>

RECURSIVE translate_functions(_, _, _, _)
\* for (func_name, func) in program.functions.iter_mut(): translate_func
\* with &mut program.data, module.push_function
functions_rest(r, opts, fs, bodies) ==
  translate_functions(opts, Tail(fs), r.data, Append(bodies, r.insts))

translate_functions(opts, fs, d, bodies) ==
  IF fs = <<>> THEN [data |-> d, bodies |-> bodies]
  ELSE functions_rest(translate_func(opts, Head(fs), EmptyMap, d), opts, fs, bodies)

SegTranslated(r) ==
  /\ seg_data' = r.data
  /\ seg_bodies' = r.bodies

TranslateFunctions ==
  /\ seg_phase = "input"
  /\ SegTranslated(translate_functions([disable_gc |-> seg_disable_gc],
                                       seg_functions, seg_data, <<>>))
  /\ seg_phase' = "done"
  /\ UNCHANGED <<seg_disable_gc, seg_functions, seg_strings>>
  /\ UNCHANGED nonSegVars

SegNext == TranslateFunctions

SpecSeg == SegInit /\ [][SegNext]_vars

RECURSIVE Flat(_)
\* the instructions of all functions, in the order they were emitted
Flat(bodies) == IF bodies = <<>> THEN <<>> ELSE Head(bodies) \o Flat(Tail(bodies))

SegCode == Flat(seg_bodies)

\* a field access site: the call of object_get or object_set
IsSite(code, p) ==
  code[p].op = "Call" /\ code[p].s \in {"object_get", "object_set"}

SitesOf(code) ==
  SelectSeq([i \in 1..Len(code) |-> i], LAMBDA p : IsSite(code, p))

\* the offset pushed at a site: GetGlobal(JNKS_STRINGS); I32Const(offset);
\* I32Add come right before the call
PushesOffset(code, p) ==
  /\ p > 3
  /\ code[p - 3] = InsN("GetGlobal", 0)
  /\ code[p - 2].op = "I32Const"
  /\ code[p - 1] = Ins("I32Add")

SlotOf(code, p) == code[p - 2].n .. (code[p - 2].n + 3)

\* C21: after the translation of any sequence of functions every field
\* access site has an inline-cache slot of its own: the offset pushed at the
\* site is the length the data segment had just before the site, the segment
\* grew by the four bytes 0xFF 0xFF 0xFF 0xFF for each site, and no two sites
\* share or overlap a slot, and no slot overlaps the interned strings.
C21_OwnCacheSlot ==
  seg_phase = "done" =>
    /\ Len(seg_data) = Len(seg_strings) + 4 * Len(SitesOf(SegCode))
    /\ SubSeq(seg_data, 1, Len(seg_strings)) = seg_strings
    /\ \A k \in DOMAIN SitesOf(SegCode) :
         /\ PushesOffset(SegCode, SitesOf(SegCode)[k])
         /\ SegCode[SitesOf(SegCode)[k] - 2].n = Len(seg_strings) + 4 * (k - 1)
         /\ SlotOf(SegCode, SitesOf(SegCode)[k]) \cap (0..(Len(seg_strings) - 1)) = {}
         /\ \A b \in SlotOf(SegCode, SitesOf(SegCode)[k]) : seg_data[b + 1] = 255
         /\ \A j \in DOMAIN SitesOf(SegCode) :
              j # k => SlotOf(SegCode, SitesOf(SegCode)[k])
                         \cap SlotOf(SegCode, SitesOf(SegCode)[j]) = {}

\* two functions were translated, the second with a site inside a method
\* dispatch, four sites in all
C21_Witness ==
  /\ seg_phase = "done" /\ Len(seg_functions) = 2
  /\ Len(SitesOf(Head(seg_bodies))) = 2
  /\ seg_functions[2].body.ss # <<>>
  /\ seg_functions[2].body.ss[1].e.k = "AnyMethodCall"
  /\ Len(SitesOf(SegCode)) = 4
  /\ Len(seg_data) = Len(seg_strings) + 16


(***************************************************************************)
(*        THE METHOD DISPATCH (translation.rs, translate_any_method)       *)
(***************************************************************************)
\* the dispatchers of the emitted function: the BrTable on the discriminant
\* of the Any, and the BrTable on the heap tag in the Ptr arm
AnyDispatchers ==
  {q \in DOMAIN insts : insts[q].op = "BrTable" /\ insts[q].table = <<0, 1, 2, 3, 4>>}
PtrDispatchers ==
  {q \in DOMAIN insts : insts[q].op = "BrTable" /\ insts[q].table = <<0, 1, 2, 3>>}

RECURSIVE ArmEnd(_, _)
\* the End that closes arm number d (from 0) of the dispatcher at q; the
\* End right after the BrTable closes the innermost block
ArmEnd(q, d) ==
  IF d = 0 THEN Scan(q + 2, 0, FALSE) ELSE Scan(ArmEnd(q, d - 1) + 1, 0, FALSE)

\* the instructions of arm number d
Arm(q, d) ==
  (IF d = 0 THEN q + 2 ELSE ArmEnd(q, d - 1) + 1) .. (ArmEnd(q, d) - 1)

\* the join point of the dispatcher at q: the GetLocal of the result local
\* after the End of the last arm
JoinOf(q) == ArmEnd(q, 4) + 1
ResultLocal(q) == insts[JoinOf(q)].n

AnyArms == <<"I32", "F64", "Bool", "Ptr", "Closure">>
MethodNames == {"m", "length"}

\* the arm calls the helper <type>_<method> and then sets the result local
CallsTypedHelper(q, d) ==
  \E i, j \in Arm(q, d) :
    /\ i < j
    /\ insts[i].op = "Call"
    /\ insts[i].s \in {AnyArms[d + 1] \o "_" \o m : m \in MethodNames}
    /\ insts[j] = InsN("SetLocal", ResultLocal(q))

\* C22: in the code emitted for AnyMethodCall each of the I32, F64, Bool and
\* Closure arms calls the typed runtime helper <type>_<method> of its type,
\* converts what the helper returned to Any and stores it in the reserved
\* result local before it leaves the dispatcher.
C22_TypedArmsCallHelper ==
  phase = "emitted" =>
    \A q \in AnyDispatchers : \A d \in {0, 1, 2, 4} : CallsTypedHelper(q, d)


ArmStart(q, d) == IF d = 0 THEN q + 2 ELSE ArmEnd(q, d - 1) + 1

\* where a branch of relative depth n at instruction p goes: past the End
\* of the n-th block open at p
BranchTarget(p, n) == Scan(Openers(p)[n + 1] + 1, 0, FALSE) + 1

\* the dispatcher on the discriminant that has the dispatcher p on the heap
\* tag in its Ptr arm
AnyOf(p) == CHOOSE q \in AnyDispatchers : p \in Arm(q, 3)

\* the arms of the dispatcher on the heap tag: Array, String and HT end at
\* an End, the Object arm runs to the end of the Ptr arm
PtrArm(p, t) ==
  IF t < 3 THEN Arm(p, t) ELSE (ArmEnd(p, 2) + 1) .. (ArmEnd(AnyOf(p), 3) - 1)

\* entry d of the table at q leads to the first instruction of arm d
TableEntersArms(q, n) ==
  \A d \in 0..(n - 1) : BranchTarget(q, insts[q].table[d + 1]) = ArmStart(q, d)

\* this step of the execution leaves the instructions `arm`
Leaves(arm) == pc \in arm /\ pc' \notin arm

\* the step keeps to the dispatch: a BrTable enters one of its arms, and a
\* step out of an arm goes to the join point (from the Closure arm, the
\* last, to the End in front of it)
DispatchStep ==
  /\ \A q \in AnyDispatchers :
       /\ TableEntersArms(q, 5)
       /\ insts[JoinOf(q)].op = "GetLocal"
       /\ pc = q => pc' \in {ArmStart(q, d) : d \in 0..4}
       /\ \A d \in 0..3 : Leaves(Arm(q, d)) => pc' = JoinOf(q)
       /\ Leaves(Arm(q, 4)) => pc' = ArmEnd(q, 4)
  /\ \A p \in PtrDispatchers :
       /\ TableEntersArms(p, 3)
       /\ BranchTarget(p, insts[p].table[4]) = ArmEnd(p, 2) + 1
       /\ pc = p => pc' \in {ArmStart(p, t) : t \in 0..3}
       /\ \A t \in 0..3 : Leaves(PtrArm(p, t)) => pc' = JoinOf(AnyOf(p))

\* C23: in the blocks emitted for AnyMethodCall and AnyLength a discriminant
\* d of 0..4 executes the arm for d and then control reaches the one join
\* point that reads the result local, without falling through into another
\* arm; in the Ptr arm a heap tag t of 0..3 likewise executes the Array,
\* String, HT or Object arm and then reaches the same join point.
C23_ArmThenJoin == [][(Running /\ pc' # pc) => DispatchStep]_vars

\* the execution has come out of the Object arm of a dispatch to the join
\* point
C23_Witness ==
  /\ Running
  /\ \E q \in AnyDispatchers : pc = JoinOf(q) /\ PtrDispatchers # {}


(***************************************************************************)
(*   THE POINTER IN AN ANY (translation.rs, translate_pointer_method and   *)
(*   Atom::EnvGet)                                                         *)
(* A value is the sequence of its bits, lowest first: 64 for an Any and an *)
(* i64, 32 for a pointer and an i32.  The code that packs a pointer into   *)
(* an Any is in the runtime (any_value.rs); its layout here is the stated  *)
(* one: the discriminant in the low byte, the pointer shifted left by 16.  *)
(***************************************************************************)
MaxLow == 9        \* the low halves 0..MaxLow of the pointers tried
MaxEntry == 1      \* the environment entries 0..MaxEntry

RECURSIVE Bits(_, _)
\* the w lowest bits of the number n
Bits(n, w) == IF w = 0 THEN <<>> ELSE <<n % 2>> \o Bits(n \div 2, w - 1)
Zeros(w) == [i \in 1..w |-> 0]

\* the pointers tried: a low half and a high half of 16 bits each
PtrLows == 0..MaxLow \cup {255, 256, 32768, 65535}
PtrHighs == {0, 1, 2, 32768, 65535}
Pointers == {Bits(lo, 16) \o Bits(hi, 16) : lo \in PtrLows, hi \in PtrHighs}

\* the discriminant of AnyEnum::Ptr
PtrDiscriminant == Bits(3, 8)

\* the Any that holds the pointer p
any_from_ptr(p) == PtrDiscriminant \o Zeros(8) \o p \o Zeros(16)

RECURSIVE Num(_)
\* the number a sequence of bits stands for
Num(b) == IF b = <<>> THEN 0 ELSE Head(b) + 2 * Num(Tail(b))

\* i64.shr_u: the count is taken modulo 64
shr_u(v, count) ==
  SubSeq(v, Num(SubSeq(count, 1, 6)) + 1, 64) \o Zeros(Num(SubSeq(count, 1, 6)))

\* the bits w wide at byte address a of a memory
load(memory, a, w) == SubSeq(memory, 8 * a + 1, 8 * a + w)

StackTop(stack) == stack[Len(stack)]
Pop(stack, n) == SubSeq(stack, 1, Len(stack) - n)

\* one instruction of the emitted code on the value stack; local 0 is env
exec(i, stack, local0, memory) ==
  CASE i.op = "I64Const" -> Append(stack, Bits(i.n, 64))
    [] i.op = "GetLocal" -> Append(stack, local0)
    [] i.op = "I64ShrU" ->
         Append(Pop(stack, 2), shr_u(stack[Len(stack) - 1], StackTop(stack)))
    [] i.op = "I32WrapI64" -> Append(Pop(stack, 1), SubSeq(StackTop(stack), 1, 32))
    [] i.op = "I32Load" ->
         Append(Pop(stack, 1), load(memory, Num(StackTop(stack)) + i.n, 32))
    [] i.op = "I64Load" ->
         Append(Pop(stack, 1), load(memory, Num(StackTop(stack)) + i.n, 64))

RECURSIVE exec_all(_, _, _, _)
exec_all(code, stack, local0, memory) ==
  IF code = <<>> \/ Len(stack) > 64 THEN stack
  ELSE exec_all(Tail(code), exec(Head(code), stack, local0, memory), local0, memory)

\* the environment at address 0: a tag, a length, the function and the
\* entries, of which entry `index` holds the Any v
env_memory(index, v) ==
  Zeros(8 * env_offset(0))
    \o [i \in 1..(64 * (MaxEntry + 1)) |->
          IF (i - 1) \div 64 = index THEN v[((i - 1) % 64) + 1] ELSE 0]

AnyInit ==
  /\ FirstIdle /\ CmpIdle /\ ClsIdle /\ BoxIdle /\ RecvIdle /\ SegIdle
  /\ any_phase = "input"
  /\ any_ptr \in Pointers
  /\ any_index \in 0..MaxEntry
  /\ any_via = "none"
  /\ any_got = <<>>

\* the Ptr arm of the method dispatch: get_id(any) has pushed the Any, then
\* "Get the pointer"
GetThePointer ==
  /\ any_phase = "input"
  /\ any_got' = StackTop(exec_all(get_the_pointer, <<any_from_ptr(any_ptr)>>,
                                  Zeros(32), <<>>))
  /\ any_via' = "dispatch"
  /\ any_phase' = "done"
  /\ UNCHANGED <<any_ptr, any_index>>
  /\ UNCHANGED nonAnyVars

\* the code of Atom::EnvGet(index, DynObject) run on an environment whose
\* entry holds the Any of the pointer
EnvGet ==
  /\ any_phase = "input"
  /\ any_got' =
       StackTop(exec_all(
         translate_atom(NewTranslate([disable_gc |-> FALSE], EmptyMap, <<>>),
                        [k |-> "EnvGet", index |-> any_index, ty |-> "DynObject"]).out,
         <<>>, Zeros(32), env_memory(any_index, any_from_ptr(any_ptr))))
  /\ any_via' = "env"
  /\ any_phase' = "done"
  /\ UNCHANGED <<any_ptr, any_index>>
  /\ UNCHANGED nonAnyVars

AnyNext == GetThePointer \/ EnvGet

SpecAny == AnyInit /\ [][AnyNext]_vars

\* C24: the pointer the emitted code takes out of a Ptr-tagged Any in the
\* Ptr arm of the method dispatch, and the 32-bit payload it loads from an
\* environment entry, is the pointer that was packed into the Any, where a
\* pointer p is packed as p shifted left by 16 bits above the discriminant
\* byte: for every 32-bit p, extract(encode(p)) = p.
C24_ExtractInvertsEncode ==
  any_phase = "done" => any_got = any_ptr


(***************************************************************************)
(*                 FURTHER PROPERTIES OF THE HEAP                          *)
(***************************************************************************)
\* block i of fl ends exactly where block j starts
Adjacent(fl, i, j) == fl[i].start + fl[i].size = fl[j].start

\* C25: FreeList::insert coalesces in both directions (the new block ends
\* where a free block starts, the new block starts where a free block ends),
\* so after gc() has swept contiguous unmarked allocations the free list
\* holds one block covering them: no free block ends where another starts.
C25_SweepCoalesces ==
  last.op = "gc" =>
    \A i, j \in 1..Len(free_list) : ~Adjacent(free_list, i, j)


(***************************************************************************)
(*                FURTHER PROPERTIES OF THE LOWERING                       *)
(***************************************************************************)
\* the identifiers an atom reads when it is evaluated
RECURSIVE AtomIds(_)
AtomIds(a) ==
  CASE a.k = "Id" -> {a.id}
    [] a.k = "Binary" -> AtomIds(a.a1) \cup AtomIds(a.a2)
    [] a.k \in {"ToAny", "FromAny"} -> AtomIds(a.a)
    [] a.k = "ObjectGet" -> AtomIds(a.obj) \cup AtomIds(a.field)
    [] a.k = "PrimApp" -> UNION {AtomIds(a.args[i]) : i \in DOMAIN a.args}
    [] OTHER -> {}

\* the source statement is `var y = e1 op e2` or `return e1 op e2`
BinarySource ==
  /\ janky_program.ss[1].s \in {"Var", "Return"}
  /\ (IF janky_program.ss[1].s = "Var" THEN janky_program.ss[1].init
      ELSE janky_program.ss[1].ex).e = "Binary"

BinaryOperands ==
  (IF janky_program.ss[1].s = "Var" THEN janky_program.ss[1].init
   ELSE janky_program.ss[1].ex).es

\* the statements of main lowered from the one source statement
Lowering == MainBody[1].ss

\* how many statements the left operand alone emits under a C::a
LeftLen == Len(compile_expr(NewS, BinaryOperands[1], [f |-> "Stmt::Expr"]).rope)

\* the atom that statement st consumes, if it consumes the Binary
Consumes(st) ==
  \/ st.k = "Return" /\ st.a.k = "Binary"
  \/ st.k = "Var" /\ st.e.k = "Atom" /\ st.e.a.k = "Binary"
Consumed(st) == IF st.k = "Return" THEN st.a ELSE st.e.a

\* the identifiers the statements i..j of ss assign
AssignedIn(ss, i, j) == { ss[n].id : n \in { n \in i..j : ss[n].k = "Assign" } }

\* C26: in the lowering of Binary(op, e1, e2) the left operand contributes
\* the value e1 had before any statement emitted for e2 ran: no statement
\* emitted for e2 assigns an identifier that the left operand of the
\* resulting Atom::Binary reads when the consuming statement runs.
C26_LeftOperandKeepsValue ==
  (anf_phase = "done" /\ BinarySource) =>
    \A i \in DOMAIN Lowering :
      (i = Len(Lowering) /\ Consumes(Lowering[i])) =>
        AtomIds(Consumed(Lowering[i]).a1)
          \cap AssignedIn(Lowering, LeftLen + 1, i - 1) = {}


\* the statements of ss that consume the value of the source statement st:
\* the Var of its identifier, the Return, the If
Consumers(ss, st) ==
  { i \in DOMAIN ss :
      CASE st.s = "Var" -> ss[i].k = "Var" /\ ss[i].id = st.x
        [] st.s = "Return" -> ss[i].k = "Return"
        [] st.s = "If" -> ss[i].k = "If"
        [] OTHER -> FALSE }

\* C27: compile_expr invokes the continuation it was given exactly once for
\* every expression form, a Store included, so the statement that consumes
\* the value of the expression of a Var, Return or If statement is emitted
\* exactly once.
C27_ContinuationInvokedOnce ==
  (anf_phase = "done" /\ janky_program.ss[1].s \in {"Var", "Return", "If"}) =>
    Cardinality(Consumers(Lowering, janky_program.ss[1])) = 1


\* C28: when Heap::alloc_object returns None the heap is as it was before
\* the call: nothing has been taken from the free list and no pointer has
\* been added to the shadow stack.
C28_FailedAllocObjectLeavesHeap ==
  [][(last'.op = "alloc_object" /\ ~last'.ok) =>
       /\ free_list' = free_list
       /\ shadow_stack' = shadow_stack]_vars


\* C29: after any sequence of alloc, alloc_object and gc operations the
\* blocks of the free list lie entirely inside the heap buffer, have
\* positive size, are pairwise non-overlapping, and are linked in strictly
\* increasing address order.
C29_FreeListWellFormed ==
  /\ \A i \in 1..Len(free_list) :
       /\ free_list[i].size > 0
       /\ Words(free_list[i].start, free_list[i].size) \subseteq 0..(HeapWords - 1)
  /\ \A i, j \in 1..Len(free_list) :
       i < j =>
         /\ free_list[i].start < free_list[j].start
         /\ Words(free_list[i].start, free_list[i].size)
              \cap Words(free_list[j].start, free_list[j].size) = {}


(***************************************************************************)
(*                FURTHER PROPERTIES OF THE TYPE CHECKER                   *)
(***************************************************************************)
\* the types of the parameters of the function checked
CmpEnv == [id \in Range(CmpParams) |->
             CmpArgs[CHOOSE i \in DOMAIN CmpParams : CmpParams[i] = id]]

\* the types of the three operands of an ArraySet or ObjectSet
OperandTypes(e) ==
  IF e.k = "ArraySet"
  THEN <<type_check_atom(CmpEnv, e.arr).ty, type_check_atom(CmpEnv, e.index).ty,
         type_check_atom(CmpEnv, e.val).ty>>
  ELSE <<type_check_atom(CmpEnv, e.obj).ty, type_check_atom(CmpEnv, e.field).ty,
         type_check_atom(CmpEnv, e.val).ty>>

\* the statements of the body of the function checked
CmpBody == cmp_program.functions[1].fn.body.ss

\* C30: the type checker rejects with an error every ArraySet whose operands
\* are not of the types (Array, I32, Any), as it rejects every ObjectSet
\* whose operands are not (DynObject, String, Any).
C30_ArraySetRejected ==
  cmp_phase = "done" =>
    \A i \in DOMAIN CmpBody :
      /\ (CmpBody[i].k = "Expression" /\ CmpBody[i].e.k = "ObjectSet"
            /\ OperandTypes(CmpBody[i].e) # <<"DynObject", "String", "Any">>)
           => cmp_check = "TypeMismatch"
      /\ (CmpBody[i].k = "Expression" /\ CmpBody[i].e.k = "ArraySet"
            /\ OperandTypes(CmpBody[i].e) # <<"Array", "I32", "Any">>)
           => cmp_check = "TypeMismatch"

=============================================================================
